---- MODULE Spec2Model ----
(***************************************************************************)
(* Model of terraform-provider-contextforge: the typed HTTP client         *)
(* (internal/client) and the managed-resource reconcilers                  *)
(* (internal/provider) for Gateway, Server, Tool, Resource, Prompt, Root.  *)
(*                                                                         *)
(* One resource of one entity kind is under management at a time: `kind`   *)
(* is drawn at Init.  The remote service is the environment: it answers    *)
(* every request with a status and a body, either as a well-behaved store  *)
(* ("echo", "withhold"), as a store whose answer to a create cannot be    *)
(* decoded ("garble"), or arbitrarily ("arbitrary").                       *)
(***************************************************************************)
EXTENDS Naturals, Integers, Sequences, FiniteSets, TLC

VARIABLES
    client,     \* the shared *client.Client: BaseURL, BearerToken
    kind,       \* entity kind of the resource under management
    service,    \* behaviour of the remote service
    remote,     \* the entities the remote service holds, in list order
    state,      \* the managed (Terraform) state of the resource, or NoState
    out,        \* the last invocation: inputs, requests issued, outcome
    prev,       \* history: which invocation came before the last one
    work        \* the value a conversion or the provider Configure works on

vars == <<client, kind, service, remote, state, out, prev, work>>

----------------------------------------------------------------------------
(* Bounds *)

\* the service holds at most this many entities of the kind
MaxRemote == 1

----------------------------------------------------------------------------
(* HTTP status codes the client distinguishes *)

StatusOK == 200
StatusCreated == 201
StatusNoContent == 204
StatusNotFound == 404
StatusInternalServerError == 500

Statuses == {StatusOK, StatusCreated, StatusNoContent, StatusNotFound,
             StatusInternalServerError}

Kinds == {"gateway", "server", "tool", "resource", "prompt", "root"}

ServiceModes == {"echo", "withhold", "arbitrary", "garble"}

----------------------------------------------------------------------------
(* Structured-field blobs: input_schema, capabilities, arguments.  A text   *)
(* is empty, not JSON, or the encoding of a JSON document; a document is    *)
(* null, a boolean, a number, a string, an array or an object (a set of     *)
(* <<key, document>> pairs with distinct keys).  An integer literal is      *)
(* hi * 2^27 + lo with lo < 2^27.                                           *)

Num(hi, lo) == [hi |-> hi, lo |-> lo]

JNull == [t |-> "null", b |-> FALSE, n |-> Num(0, 0), s |-> "", a |-> <<>>, o |-> {}]
JBool(b) == [JNull EXCEPT !.t = "bool", !.b = b]
JNumber(n) == [JNull EXCEPT !.t = "number", !.n = n]
JString(s) == [JNull EXCEPT !.t = "string", !.s = s]
JArray(a) == [JNull EXCEPT !.t = "array", !.a = a]
JObject(o) == [JNull EXCEPT !.t = "object", !.o = o]

EmptyText == [form |-> "empty", doc |-> JNull, layout |-> ""]
NotJSON == [form |-> "garbage", doc |-> JNull, layout |-> ""]
JSONText(doc, layout) == [form |-> "json", doc |-> doc, layout |-> layout]

\* the float64 nearest to an integer: exact below 2^53; from 2^53 to 2^54
\* the even integers, a tie going to the even mantissa
Float64(n) ==
    IF n.hi < 2^26 \/ n.lo % 2 = 0 THEN n
    ELSE IF ((n.lo - 1) \div 2) % 2 = 0 THEN Num(n.hi, n.lo - 1)
    ELSE Num(n.hi, n.lo + 1)

\* json.Unmarshal into interface{}: a number becomes a float64
RECURSIVE decodeAny(_)
decodeAny(v) ==
    CASE v.t = "number" -> JNumber(Float64(v.n))
      [] v.t = "array" -> JArray([i \in DOMAIN v.a |-> decodeAny(v.a[i])])
      [] v.t = "object" -> JObject({<<p[1], decodeAny(p[2])>> : p \in v.o})
      [] OTHER -> v

\* the results of json.Unmarshal and of json.Marshal
Decoded(err, nil, v) == [err |-> err, nil |-> nil, v |-> v]

\* json.Unmarshal([]byte(text), &m) with m a map[string]interface{}: JSON
\* null leaves m nil, without an error
UnmarshalMap(text) ==
    IF text.form # "json" THEN Decoded(TRUE, TRUE, JNull)
    ELSE IF text.doc.t = "null" THEN Decoded(FALSE, TRUE, JNull)
    ELSE IF text.doc.t # "object" THEN Decoded(TRUE, TRUE, JNull)
    ELSE Decoded(FALSE, FALSE, decodeAny(text.doc))

\* json.Marshal of a map[string]interface{}: keys sorted, no white space
MarshalMap(v) == JSONText(v, "compact")

\* client.PromptArgument{Name, Description, Required}: the member of an
\* object under a key, JSON null when the key is absent
Member(o, k) ==
    IF \E p \in o : p[1] = k THEN (CHOOSE p \in o : p[1] = k)[2] ELSE JNull

PromptArgument(name, description, required) ==
    JObject({<<"name", JString(name)>>,
             <<"description", JString(description)>>,
             <<"required", JBool(required)>>})

\* an array element decodes into the struct: a null element or member
\* leaves the zero value, a key the struct does not have is skipped
Fits(v) ==
    \/ v.t = "null"
    \/ /\ v.t = "object"
       /\ Member(v.o, "name").t \in {"null", "string"}
       /\ Member(v.o, "description").t \in {"null", "string"}
       /\ Member(v.o, "required").t \in {"null", "bool"}

decodeArgument(v) ==
    PromptArgument(Member(v.o, "name").s, Member(v.o, "description").s,
                   Member(v.o, "required").b)

\* json.Unmarshal([]byte(text), &arguments), arguments a []client.PromptArgument
UnmarshalArguments(text) ==
    IF text.form # "json" THEN Decoded(TRUE, TRUE, JNull)
    ELSE IF text.doc.t = "null" THEN Decoded(FALSE, TRUE, JNull)
    ELSE IF text.doc.t # "array" THEN Decoded(TRUE, TRUE, JNull)
    ELSE IF \E i \in DOMAIN text.doc.a : ~Fits(text.doc.a[i])
         THEN Decoded(TRUE, TRUE, JNull)
    ELSE Decoded(FALSE, FALSE,
                 JArray([i \in DOMAIN text.doc.a |-> decodeArgument(text.doc.a[i])]))

\* json.Marshal of a []client.PromptArgument
MarshalArguments(v) == JSONText(v, "compact")

\* the blob as a Go value (nil or a value) and as a Terraform string
NilBlob == [nil |-> TRUE, v |-> JNull]
Blob(v) == [nil |-> FALSE, v |-> v]

BlobNull == [k |-> "null", v |-> EmptyText]
BlobUnknown == [k |-> "unknown", v |-> EmptyText]
BlobValue(text) == [k |-> "known", v |-> text]

\* the parse of a declared blob in Create and Update: skipped when the
\* attribute is null, unknown or the empty string
ParseBlob(k, attr) ==
    IF ~(attr.k # "null" /\ attr.k # "unknown" /\ attr.v.form # "empty")
    THEN Decoded(FALSE, TRUE, JNull)
    ELSE IF k = "prompt" THEN UnmarshalArguments(attr.v)
    ELSE UnmarshalMap(attr.v)

AsBlob(d) == IF d.nil THEN NilBlob ELSE Blob(d.v)

\* the kinds with a blob attribute: input_schema, capabilities, arguments
BlobKinds == {"tool", "gateway", "prompt"}

----------------------------------------------------------------------------
(* Go values.  A Go string that holds an identity (id, uri) is a sequence  *)
(* of characters, so that it can be escaped into a path segment; other     *)
(* strings are atoms.  A Go slice is nil or a (possibly empty) sequence.   *)

NilSlice == [nil |-> TRUE, e |-> <<>>]
Slice(s) == [nil |-> FALSE, e |-> s]

\* the zero value of the entity structs client.Server, client.Gateway, ...
ZeroEntity ==
    [id |-> <<>>, uri |-> <<>>, name |-> "", description |-> "",
     tags |-> NilSlice, tool_ids |-> NilSlice, visibility |-> "",
     is_active |-> FALSE, auth_value |-> "", blob |-> NilBlob,
     transport |-> ""]

----------------------------------------------------------------------------
(* terraform-plugin-framework values: null, unknown or known.  ValueString, *)
(* ValueBool and ElementsAs of a null or unknown value give the zero value. *)

StringNull == [k |-> "null", v |-> ""]
StringUnknown == [k |-> "unknown", v |-> ""]
StringValue(s) == [k |-> "known", v |-> s]

IdNull == [k |-> "null", v |-> <<>>]
IdUnknown == [k |-> "unknown", v |-> <<>>]
IdValue(s) == [k |-> "known", v |-> s]

BoolNull == [k |-> "null", v |-> FALSE]
BoolUnknown == [k |-> "unknown", v |-> FALSE]
BoolValue(b) == [k |-> "known", v |-> b]

ListNull == [k |-> "null", v |-> <<>>]
ListUnknown == [k |-> "unknown", v |-> <<>>]
ListValue(s) == [k |-> "known", v |-> s]

IsNull(x) == x.k = "null"
IsUnknown(x) == x.k = "unknown"
IsKnown(x) == x.k = "known"
ValueString(x) == x.v
ValueBool(x) == x.v

\* if !x.IsNull() && !x.IsUnknown() { x.ElementsAs(ctx, &s, false) }
ElementsAs(x) == IF ~IsNull(x) /\ ~IsUnknown(x) THEN Slice(x.v) ELSE NilSlice

\* types.ListValueFrom(ctx, types.StringType, s): a nil slice gives a null list
ListValueFrom(s) == IF s.nil THEN ListNull ELSE ListValue(s.e)

----------------------------------------------------------------------------
(* Identities and request paths.  A path is a sequence of segments; a       *)
(* segment is a literal collection name or an escaped identity.             *)

Lit(name) == [lit |-> name, esc |-> <<>>]
Esc(chars) == [lit |-> "", esc |-> chars]

\* url.PathEscape on one character: '/', '%', '?', ';', ',' are escaped,
\* letters, digits, '.', '-', '_', '~', ':', '@', '$', '&', '+', '=' are kept
EscapeChar(c) ==
    CASE c = "/" -> <<"%", "2", "F">>
      [] c = "%" -> <<"%", "2", "5">>
      [] c = "?" -> <<"%", "3", "F">>
      [] c = ";" -> <<"%", "3", "B">>
      [] c = "," -> <<"%", "2", "C">>
      [] OTHER -> <<c>>

RECURSIVE PathEscape(_)
PathEscape(s) ==
    IF s = <<>> THEN <<>> ELSE EscapeChar(Head(s)) \o PathEscape(Tail(s))

\* the service's decoding of "%XY"
HexChar(h) ==
    CASE h = <<"2", "F">> -> "/"
      [] h = <<"2", "5">> -> "%"
      [] h = <<"3", "F">> -> "?"
      [] h = <<"3", "B">> -> ";"
      [] h = <<"2", "C">> -> ","
      [] OTHER -> "#"

RECURSIVE PathUnescape(_)
PathUnescape(s) ==
    IF s = <<>> THEN <<>>
    ELSE IF Head(s) = "%" /\ Len(s) >= 3
         THEN <<HexChar(SubSeq(s, 2, 3))>> \o PathUnescape(SubSeq(s, 4, Len(s)))
         ELSE <<Head(s)>> \o PathUnescape(Tail(s))

IsDot(seg) == seg.lit = "" /\ seg.esc = <<".">>
IsDotDot(seg) == seg.lit = "" /\ seg.esc = <<".", ".">>

\* path.Clean as applied by url.JoinPath: "." segments are dropped and ".."
\* removes the segment before it
RECURSIVE Clean(_, _)
Clean(done, rest) ==
    IF rest = <<>> THEN done
    ELSE IF IsDot(Head(rest)) THEN Clean(done, Tail(rest))
    ELSE IF IsDotDot(Head(rest))
         THEN Clean(IF done = <<>> THEN <<>> ELSE SubSeq(done, 1, Len(done) - 1),
                    Tail(rest))
         ELSE Clean(Append(done, Head(rest)), Tail(rest))

\* url.JoinPath(c.BaseURL, reqPath)
JoinPath(base, reqPath) == [base |-> base, path |-> Clean(<<>>, reqPath)]

----------------------------------------------------------------------------
(* Transport *)

NoAuth == [set |-> FALSE, scheme |-> "", token |-> ""]
Bearer(t) == [set |-> TRUE, scheme |-> "Bearer", token |-> t]

\* *bool / bool request fields: unset (omitted) or a value
Unset == [set |-> FALSE, v |-> FALSE]
SetTo(b) == [set |-> TRUE, v |-> b]

\* body == nil
NoBody ==
    [present |-> FALSE, envelope |-> "", uri |-> <<>>, name |-> "",
     description |-> "", tags |-> NilSlice, tool_ids |-> NilSlice,
     visibility |-> "", is_active |-> Unset, auth_value |-> "",
     blob |-> NilBlob, transport |-> ""]

NoQuery == ""

\* the *http.Request built by doRequestWithQuery; c.HTTPClient.Do(req) is
\* the step of the remote service
\* doRequestWithQuery that sets the header without testing the token
doRequestWithQueryAlwaysAuth(c, method, reqPath, query, body) ==
    [method |-> method,
     url |-> JoinPath(c.BaseURL, reqPath),
     query |-> query,
     auth |-> Bearer(c.BearerToken),
     ctype |-> IF body.present THEN "application/json" ELSE "",
     body |-> body]

doRequestWithQuery(c, method, reqPath, query, body) ==
    [method |-> method,
     url |-> JoinPath(c.BaseURL, reqPath),
     query |-> query,
     auth |-> IF c.BearerToken # "" THEN Bearer(c.BearerToken) ELSE NoAuth,
     ctype |-> IF body.present THEN "application/json" ELSE "",
     body |-> body]

doRequest(c, method, reqPath, body) ==
    doRequestWithQuery(c, method, reqPath, NoQuery, body)

\* what Do and io.ReadAll give back: a transport error, or a status and a
\* body; a body is undecodable, a JSON object or a JSON array
Garbage == [shape |-> "garbage", ent |-> ZeroEntity, list |-> <<>>]
Object(e) == [shape |-> "object", ent |-> e, list |-> <<>>]
Array(l) == [shape |-> "array", ent |-> ZeroEntity, list |-> l]

TransportError == [terr |-> TRUE, status |-> 0, body |-> Garbage]
Response(status, body) == [terr |-> FALSE, status |-> status, body |-> body]

\* results of the client functions
NoEntity == [nil |-> TRUE, ent |-> ZeroEntity]
Entity(e) == [nil |-> FALSE, ent |-> e]
\* an error that is not about the status carries no status and no body
NoMessage == [text |-> "", status |-> 0, body |-> Garbage]
Result(e, err) == [entity |-> e, list |-> <<>>, err |-> err, msg |-> NoMessage]
ListResult(l, err) ==
    [entity |-> NoEntity, list |-> l, err |-> err, msg |-> NoMessage]

\* an unexpected-status error that names the status only
StatusErrorWithoutBody(rsp) ==
    [entity |-> NoEntity, list |-> <<>>, err |-> TRUE,
     msg |-> [text |-> "unexpected status code", status |-> rsp.status,
              body |-> Garbage]]

\* fmt.Errorf("unexpected status code %d: %s", statusCode, string(body))
StatusError(rsp) ==
    [entity |-> NoEntity, list |-> <<>>, err |-> TRUE,
     msg |-> [text |-> "unexpected status code", status |-> rsp.status,
              body |-> rsp.body]]

----------------------------------------------------------------------------
(* Resource clients: Server (internal/client/client.go) *)

Call(fn, op, id, req, rsp, res) ==
    [fn |-> fn, op |-> op, id |-> id, req |-> req, rsp |-> rsp, res |-> res]

\* request bodies
ServerConfig(name, description, tags) ==
    [NoBody EXCEPT !.present = TRUE, !.envelope = "server", !.name = name,
                   !.description = description, !.tags = tags]

CreateServerRequest(server, visibility) ==
    [server EXCEPT !.visibility = visibility]

ListServersRequest(c, includeInactive) ==
    doRequestWithQuery(c, "GET", <<Lit("servers")>>,
        IF includeInactive THEN "include_inactive=true"
                           ELSE "include_inactive=false", NoBody)

\* ListServers that keeps the active servers only
ListServersActiveOnly(rsp) ==
    IF rsp.terr THEN ListResult(<<>>, TRUE)
    ELSE IF rsp.status # StatusOK THEN ListResult(<<>>, TRUE)
    ELSE IF rsp.body.shape # "array" THEN ListResult(<<>>, TRUE)
    ELSE ListResult(SelectSeq(rsp.body.list, LAMBDA e : e.is_active), FALSE)

ListServers(rsp) ==
    IF rsp.terr THEN ListResult(<<>>, TRUE)
    ELSE IF rsp.status # StatusOK THEN StatusError(rsp)
    ELSE IF rsp.body.shape # "array" THEN ListResult(<<>>, TRUE)
    ELSE ListResult(rsp.body.list, FALSE)

CreateServerHTTP(c, req) == doRequest(c, "POST", <<Lit("servers")>>, req)

CreateServer(rsp) ==
    IF rsp.terr THEN Result(NoEntity, TRUE)
    ELSE IF rsp.status # StatusOK /\ rsp.status # StatusCreated
         THEN StatusError(rsp)
    ELSE IF rsp.body.shape # "object" THEN Result(NoEntity, TRUE)
    ELSE Result(Entity(rsp.body.ent), FALSE)

GetServerHTTP(c, id) ==
    doRequest(c, "GET", <<Lit("servers"), Esc(PathEscape(id))>>, NoBody)

\* GetServer without the 404 case, and with every non-200 status taken
\* for "no such entity"
GetServerNotFoundIsError(rsp) ==
    IF rsp.terr THEN Result(NoEntity, TRUE)
    ELSE IF rsp.status # StatusOK THEN Result(NoEntity, TRUE)
    ELSE IF rsp.body.shape # "object" THEN Result(NoEntity, TRUE)
    ELSE Result(Entity(rsp.body.ent), FALSE)

GetServerAbsentUnlessOK(rsp) ==
    IF rsp.terr THEN Result(NoEntity, TRUE)
    ELSE IF rsp.status # StatusOK THEN Result(NoEntity, FALSE)
    ELSE IF rsp.body.shape # "object" THEN Result(NoEntity, TRUE)
    ELSE Result(Entity(rsp.body.ent), FALSE)

GetServer(rsp) ==
    IF rsp.terr THEN Result(NoEntity, TRUE)
    ELSE IF rsp.status = StatusNotFound THEN Result(NoEntity, FALSE)
    ELSE IF rsp.status # StatusOK THEN StatusError(rsp)
    ELSE IF rsp.body.shape # "object" THEN Result(NoEntity, TRUE)
    ELSE Result(Entity(rsp.body.ent), FALSE)

DeleteServerHTTP(c, id) ==
    doRequest(c, "DELETE", <<Lit("servers"), Esc(PathEscape(id))>>, NoBody)

\* DeleteServer that does not accept 404, and one that accepts only 200
DeleteServerNotFoundIsError(rsp) ==
    IF rsp.terr THEN Result(NoEntity, TRUE)
    ELSE IF rsp.status # StatusOK /\ rsp.status # StatusNoContent
         THEN Result(NoEntity, TRUE)
    ELSE Result(NoEntity, FALSE)

DeleteServerOnlyOK(rsp) ==
    IF rsp.terr THEN Result(NoEntity, TRUE)
    ELSE IF rsp.status # StatusOK THEN Result(NoEntity, TRUE)
    ELSE Result(NoEntity, FALSE)

DeleteServer(rsp) ==
    IF rsp.terr THEN Result(NoEntity, TRUE)
    ELSE IF rsp.status # StatusOK /\ rsp.status # StatusNoContent
            /\ rsp.status # StatusNotFound
         THEN StatusError(rsp)
    ELSE Result(NoEntity, FALSE)

\* GetHealth: GET /health through doRequest, like every other call
GetHealthHTTP(c) == doRequest(c, "GET", <<Lit("health")>>, NoBody)

GetHealth(rsp) ==
    IF rsp.terr THEN Result(NoEntity, TRUE)
    ELSE IF rsp.status # StatusOK THEN StatusError(rsp)
    ELSE IF rsp.body.shape # "object" THEN Result(NoEntity, TRUE)
    ELSE Result(Entity(rsp.body.ent), FALSE)

----------------------------------------------------------------------------
(* Resource clients whose code is not in the source tree: the uniform       *)
(* per-operation contract and the path scheme of the wire protocol.         *)

ContractList(rsp) ==
    IF rsp.terr THEN ListResult(<<>>, TRUE)
    ELSE IF rsp.status # StatusOK THEN StatusError(rsp)
    ELSE IF rsp.body.shape # "array" THEN ListResult(<<>>, TRUE)
    ELSE ListResult(rsp.body.list, FALSE)

ContractCreate(rsp) ==
    IF rsp.terr THEN Result(NoEntity, TRUE)
    ELSE IF rsp.status \notin {StatusOK, StatusCreated} THEN StatusError(rsp)
    ELSE IF rsp.body.shape # "object" THEN Result(NoEntity, TRUE)
    ELSE Result(Entity(rsp.body.ent), FALSE)

ContractGet(rsp) ==
    IF rsp.terr THEN Result(NoEntity, TRUE)
    ELSE IF rsp.status = StatusNotFound THEN Result(NoEntity, FALSE)
    ELSE IF rsp.status # StatusOK THEN StatusError(rsp)
    ELSE IF rsp.body.shape # "object" THEN Result(NoEntity, TRUE)
    ELSE Result(Entity(rsp.body.ent), FALSE)

ContractUpdate(rsp) ==
    IF rsp.terr THEN Result(NoEntity, TRUE)
    ELSE IF rsp.status # StatusOK THEN StatusError(rsp)
    ELSE IF rsp.body.shape # "object" THEN Result(NoEntity, TRUE)
    ELSE Result(Entity(rsp.body.ent), FALSE)

ContractDelete(rsp) ==
    IF rsp.terr THEN Result(NoEntity, TRUE)
    ELSE IF rsp.status \notin {StatusOK, StatusNoContent, StatusNotFound}
         THEN StatusError(rsp)
    ELSE Result(NoEntity, FALSE)

CollectionPath(k) ==
    CASE k = "gateway" -> "gateways"
      [] k = "server" -> "servers"
      [] k = "tool" -> "tools"
      [] k = "resource" -> "resources"
      [] k = "prompt" -> "prompts"
      [] k = "root" -> "roots"

ItemPath(k, id) == <<Lit(CollectionPath(k)), Esc(PathEscape(id))>>

\* the single-item read path: Resource reads via /resources/{id}/info
ReadPath(k, id) ==
    IF k = "resource" THEN Append(ItemPath(k, id), Lit("info"))
    ELSE ItemPath(k, id)

ContractCreateHTTP(c, k, req) ==
    doRequest(c, "POST", <<Lit(CollectionPath(k))>>, req)
ContractGetHTTP(c, k, id) == doRequest(c, "GET", ReadPath(k, id), NoBody)
ContractUpdateHTTP(c, k, id, req) == doRequest(c, "PUT", ItemPath(k, id), req)
ContractDeleteHTTP(c, k, id) == doRequest(c, "DELETE", ItemPath(k, id), NoBody)

\* client.ServerUpdate
ServerUpdate(name, description, tags, toolIDs) ==
    [NoBody EXCEPT !.present = TRUE, !.name = name,
                   !.description = description, !.tags = tags,
                   !.tool_ids = toolIDs]

\* the client functions of a kind: c.Create<Kind>, c.Get<Kind>, ...; each
\* is the request it sends (...HTTP) and what it makes of the response
CreateHTTP(k, c, req) ==
    IF k = "server" THEN CreateServerHTTP(c, req)
    ELSE ContractCreateHTTP(c, k, req)

Create(k, rsp) == IF k = "server" THEN CreateServer(rsp) ELSE ContractCreate(rsp)

GetHTTP(k, c, id) ==
    IF k = "server" THEN GetServerHTTP(c, id) ELSE ContractGetHTTP(c, k, id)

Get(k, rsp) == IF k = "server" THEN GetServer(rsp) ELSE ContractGet(rsp)

UpdateHTTP(k, c, id, req) == ContractUpdateHTTP(c, k, id, req)

Update(k, rsp) == ContractUpdate(rsp)

DeleteHTTP(k, c, id) ==
    IF k = "server" THEN DeleteServerHTTP(c, id)
    ELSE ContractDeleteHTTP(c, k, id)

Delete(k, rsp) == IF k = "server" THEN DeleteServer(rsp) ELSE ContractDelete(rsp)

ListHTTP(k, c) ==
    IF k = "server" THEN ListServersRequest(c, TRUE)
    ELSE doRequest(c, "GET", <<Lit(CollectionPath(k))>>, NoBody)

List(k, rsp) == IF k = "server" THEN ListServers(rsp) ELSE ContractList(rsp)

----------------------------------------------------------------------------
(* The remote service (an external collaborator).  As a well-behaved store  *)
(* it keeps exactly what a create request carries, assigns the identity,    *)
(* returns what it holds, removes on DELETE and answers 404 for an identity *)
(* it does not hold; in mode "withhold" it never returns auth_value.        *)
(* In mode "arbitrary" it answers any status with any body.  In mode        *)
(* "garble" it is the store, but the body of its answer to a create cannot  *)
(* be decoded.                                                              *)

IdPool == << <<"a">>, <<"b">>, <<"c">>, <<"d">> >>
Ids == {IdPool[i] : i \in 1..(MaxRemote + 1)}

UriPool == << <<"f", ":", "/", "w">>, <<"f", ":", "/", "x">>,
              <<"f", ":", "/", "y">>, <<"f", ":", "/", "z">> >>
Uris == {UriPool[i] : i \in 1..(MaxRemote + 1)}

Key(e) == IF kind = "root" THEN e.uri ELSE e.id
Keys == IF kind = "root" THEN Uris ELSE Ids

Held(key) == \E i \in 1..Len(remote) : Key(remote[i]) = key
IndexOf(key) == CHOOSE i \in 1..Len(remote) : Key(remote[i]) = key

\* the identity the service assigns to the next created entity
FreshId ==
    IdPool[CHOOSE i \in 1..Len(IdPool) :
              /\ \A j \in 1..Len(remote) : remote[j].id # IdPool[i]
              /\ \A h \in 1..(i - 1) :
                    \E j \in 1..Len(remote) : remote[j].id = IdPool[h]]

\* JSON with omitempty: an empty list is not on the wire
Wire(s) == IF s.nil \/ s.e = <<>> THEN NilSlice ELSE s

\* the entity a create request carries; an omitted is_active is the
\* service's default, true
FromBody(b) ==
    [id |-> IF kind = "root" THEN <<>> ELSE FreshId,
     uri |-> b.uri, name |-> b.name, description |-> b.description,
     tags |-> Wire(b.tags), tool_ids |-> Wire(b.tool_ids),
     visibility |-> b.visibility,
     is_active |-> IF b.is_active.set THEN b.is_active.v ELSE TRUE,
     auth_value |-> b.auth_value, blob |-> b.blob,
     transport |-> b.transport]

\* an update stores the fields the request carries and leaves the others
Merge(e, b) ==
    [e EXCEPT
        !.uri = IF b.uri # <<>> THEN b.uri ELSE @,
        !.name = IF b.name # "" THEN b.name ELSE @,
        !.description = IF b.description # "" THEN b.description ELSE @,
        !.tags = IF Wire(b.tags).nil THEN @ ELSE b.tags,
        !.tool_ids = IF Wire(b.tool_ids).nil THEN @ ELSE b.tool_ids,
        !.visibility = IF b.visibility # "" THEN b.visibility ELSE @,
        !.is_active = IF b.is_active.set THEN b.is_active.v ELSE @,
        !.auth_value = IF b.auth_value # "" THEN b.auth_value ELSE @,
        !.blob = IF b.blob.nil THEN @ ELSE b.blob,
        !.transport = IF b.transport # "" THEN b.transport ELSE @]

RemoveAt(s, i) == SubSeq(s, 1, i - 1) \o SubSeq(s, i + 1, Len(s))

\* what the service returns of an entity it holds
View(e) == IF service = "withhold" THEN [e EXCEPT !.auth_value = ""] ELSE e
ViewAll(l) == [i \in 1..Len(l) |-> View(l[i])]

Answer(rsp, store) == [rsp |-> rsp, store |-> store]

IsCollection(p) == Len(p) = 1 /\ p[1] = Lit(CollectionPath(kind))
IsItem(p) ==
    /\ Len(p) \in {2, 3}
    /\ p[1] = Lit(CollectionPath(kind))
    /\ p[2].lit = ""
    /\ Len(p) = 3 => p[3] = Lit("info")

\* the answer of the well-behaved store
Faithful(req) ==
    LET p == req.url.path
        key == PathUnescape(p[2].esc)
    IN  IF p = <<Lit("health")>> THEN
            Answer(Response(StatusOK, Object([ZeroEntity EXCEPT !.name = "healthy"])),
                   remote)
        ELSE IF IsCollection(p) /\ req.method = "POST" THEN
            IF kind = "root" /\ Held(req.body.uri)
            THEN Answer(Response(StatusOK,
                     Object(View(remote[IndexOf(req.body.uri)]))), remote)
            ELSE Answer(Response(StatusCreated, Object(View(FromBody(req.body)))),
                        Append(remote, FromBody(req.body)))
        ELSE IF IsCollection(p) /\ req.method = "GET" THEN
            Answer(Response(StatusOK, Array(ViewAll(remote))), remote)
        ELSE IF IsItem(p) /\ Held(key) /\ req.method = "GET" THEN
            Answer(Response(StatusOK, Object(View(remote[IndexOf(key)]))), remote)
        ELSE IF IsItem(p) /\ Held(key) /\ req.method = "PUT" THEN
            LET e == Merge(remote[IndexOf(key)], req.body)
            IN  Answer(Response(StatusOK, Object(View(e))),
                       [remote EXCEPT ![IndexOf(key)] = e])
        ELSE IF IsItem(p) /\ Held(key) /\ req.method = "DELETE" THEN
            Answer(Response(StatusNoContent, Garbage),
                   RemoveAt(remote, IndexOf(key)))
        ELSE Answer(Response(StatusNotFound, Garbage), remote)

\* entities an arbitrary service may put in a body: one without and one
\* with auth_value, of different identities
ArbEntities ==
    {[ZeroEntity EXCEPT !.id = IdPool[1], !.uri = UriPool[1], !.name = "n1"],
     [ZeroEntity EXCEPT !.id = IdPool[2], !.uri = UriPool[2], !.name = "x",
                        !.tags = Slice(<<>>), !.tool_ids = Slice(<<"tool-1">>),
                        !.is_active = TRUE, !.auth_value = "leak"]}

ArbList ==
    <<[ZeroEntity EXCEPT !.id = IdPool[2], !.uri = UriPool[2], !.name = "x"],
      [ZeroEntity EXCEPT !.id = IdPool[1], !.uri = UriPool[1], !.name = "n1"],
      [ZeroEntity EXCEPT !.id = IdPool[1], !.uri = UriPool[1], !.name = "x"]>>

\* the bodies it may send: undecodable, of the shape the operation decodes,
\* or of the other shape
ArbBodies(req) ==
    IF IsCollection(req.url.path) /\ req.method = "GET"
    THEN {Garbage, Array(<<>>), Array(ArbList), Object(ZeroEntity)}
    ELSE {Garbage, Array(<<>>), Object(ZeroEntity)}
             \cup {Object(e) : e \in ArbEntities}

\* every answer the service may give to a request; the arbitrary service
\* is a responder that keeps no store
Serve(req) ==
    IF service = "arbitrary"
    THEN {Answer(rsp, remote) :
            rsp \in {TransportError}
                      \cup {Response(s, b) : s \in {StatusOK, StatusCreated},
                                             b \in ArbBodies(req)}
                      \cup {Response(s, b) :
                               s \in Statuses \ {StatusOK, StatusCreated},
                               b \in {Garbage, Object(ZeroEntity)}}}
    ELSE IF service = "garble" /\ Faithful(req).rsp.status = StatusCreated
    THEN {Answer(Response(StatusCreated, Garbage), Faithful(req).store)}
    ELSE {Faithful(req)}

----------------------------------------------------------------------------
(* Managed state and plans *)

\* the attributes of the resource models (ServerResourceModel, ...); an
\* attribute a kind does not declare stays null
NullModel ==
    [id |-> IdNull, uri |-> IdNull, name |-> StringNull,
     description |-> StringNull, tags |-> ListNull, tool_ids |-> ListNull,
     visibility |-> StringNull, is_active |-> BoolNull,
     auth_value |-> StringNull, blob |-> BlobNull, transport |-> StringNull]

NoState == [has |-> FALSE, m |-> NullModel]
Has(m) == [has |-> TRUE, m |-> m]

\* the id of a plan: unknown at create, the state's id at update
\* (UseStateForUnknown)
PlanId == IF state.has THEN state.m.id ELSE IdUnknown

\* a plan that declares only the required name: an Optional+Computed
\* attribute that is not declared is unknown in the plan
Undeclared(n) ==
    [NullModel EXCEPT !.id = PlanId, !.name = StringValue(n),
                      !.description = StringUnknown, !.tags = ListUnknown,
                      !.visibility = StringUnknown]

\* the texts a configuration may declare for a blob attribute: not JSON,
\* JSON null, an object (indented by hand), an array of arguments
SchemaDoc == JObject({<<"type", JString("object")>>})
ArgumentsDoc == JArray(<<PromptArgument("x", "d", TRUE)>>)
BlobTexts ==
    {NotJSON, JSONText(JNull, "compact"), JSONText(SchemaDoc, "indented"),
     JSONText(ArgumentsDoc, "compact")}

\* input_schema, capabilities and arguments are Optional+Computed
WithBlob(plans) ==
    {[p EXCEPT !.blob = BlobUnknown] : p \in plans}
        \cup {[p EXCEPT !.blob = BlobValue(t)] :
                 p \in {q \in plans : q.name = StringValue("n1")
                                        /\ q.description = StringUnknown
                                        /\ q.tags = ListUnknown},
                 t \in BlobTexts}

ServerPlans ==
    {[Undeclared("n1") EXCEPT !.tool_ids = ListUnknown, !.is_active = BoolUnknown],
     [Undeclared("n1") EXCEPT !.tool_ids = ListUnknown, !.is_active = BoolUnknown,
                              !.visibility = StringValue("internal")],
     [Undeclared("n1") EXCEPT !.description = StringValue("d"),
                              !.tags = ListValue(<<"t">>),
                              !.tool_ids = ListValue(<<"tool-1">>),
                              !.visibility = StringValue("private"),
                              !.is_active = BoolValue(TRUE)],
     [Undeclared("n2") EXCEPT !.description = StringValue("d"),
                              !.tags = ListValue(<<>>),
                              !.tool_ids = ListUnknown,
                              !.visibility = StringValue("private"),
                              !.is_active = BoolUnknown]}

\* auth_value is Optional and not Computed: undeclared, it is null
GatewayPlans ==
    WithBlob({[Undeclared("n1") EXCEPT !.visibility = StringNull,
                              !.transport = StringUnknown,
                              !.is_active = BoolUnknown],
     [Undeclared("n1") EXCEPT !.visibility = StringNull,
                              !.transport = StringValue("HTTP"),
                              !.tags = ListValue(<<"t">>),
                              !.is_active = BoolUnknown],
     [Undeclared("n1") EXCEPT !.visibility = StringNull,
                              !.transport = StringValue("SSE"),
                              !.description = StringValue("d"),
                              !.tags = ListValue(<<"t">>),
                              !.is_active = BoolValue(TRUE),
                              !.auth_value = StringValue("s1")],
     [Undeclared("n2") EXCEPT !.visibility = StringNull,
                              !.transport = StringUnknown,
                              !.tags = ListValue(<<>>),
                              !.is_active = BoolValue(FALSE),
                              !.auth_value = StringValue("s2")]})

\* Tool, Prompt: name, description, tags, visibility; is_active is Computed
CommonPlans ==
    {[Undeclared("n1") EXCEPT !.is_active = BoolUnknown],
     [Undeclared("n1") EXCEPT !.is_active = BoolUnknown,
                              !.tags = ListValue(<<"t">>),
                              !.visibility = StringValue("internal")],
     [Undeclared("n1") EXCEPT !.description = StringValue("d"),
                              !.tags = ListValue(<<"t">>),
                              !.visibility = StringValue("private"),
                              !.is_active = BoolUnknown],
     [Undeclared("n2") EXCEPT !.description = StringValue("d"),
                              !.tags = ListValue(<<>>),
                              !.is_active = BoolUnknown]}

ToolPlans == WithBlob(CommonPlans)
PromptPlans == WithBlob(CommonPlans)

\* uri is Required
MCPResourcePlans == {[p EXCEPT !.uri = IdValue(<<"f", ":", "/", "r">>)] : p \in CommonPlans}

\* Root: uri is Required, name is Optional
RootPlans ==
    {[NullModel EXCEPT !.uri = IdValue(u), !.name = n] :
        u \in Uris, n \in {StringNull, StringValue("n1")}}

----------------------------------------------------------------------------
(* Schema validators: the framework validates the configuration against   *)
(* the schema and invokes Create or Update only when no validator of the  *)
(* resource raised an error.                                              *)

\* stringvalidator.OneOf: a null or unknown value is not validated
OneOf(values, attr) == IsNull(attr) \/ IsUnknown(attr) \/ attr.v \in values

\* the validators the Schema of each resource declares
Validators(k, data) ==
    CASE k \in {"server", "resource", "prompt"} ->
            OneOf({"public", "private", "team"}, data.visibility)
      [] k = "gateway" ->
            OneOf({"STREAMABLEHTTP", "SSE", "STDIO"}, data.transport)
      [] OTHER -> TRUE

----------------------------------------------------------------------------
(* The record of an invocation *)

NoOut ==
    [op |-> "none", id |-> <<>>, plan |-> NullModel, prior_auth |-> StringNull,
     calls |-> <<>>, err |-> FALSE, effect |-> "none", changed |-> FALSE]

LastStatus(o) ==
    IF o.calls = <<>> THEN 0 ELSE o.calls[Len(o.calls)].rsp.status

NoSummary == [op |-> "none", id |-> <<>>, err |-> FALSE, changed |-> FALSE]

\* what is remembered of an invocation when the next one has run; kept for
\* the well-behaved store, against which the two-step laws are stated
Summary(o) ==
    IF service \in {"arbitrary", "garble"} THEN NoSummary
    ELSE [op |-> o.op, id |-> o.id, err |-> o.err, changed |-> o.changed]

\* the end of an invocation: diagnostics, the state handed back to the
\* framework, and the store the service is left with
Finish(op, id, plan, calls, err, effect, newState, store) ==
    /\ out' = [op |-> op, id |-> id, plan |-> plan,
               prior_auth |-> state.m.auth_value, calls |-> calls,
               err |-> err, effect |-> effect, changed |-> store # remote]
    /\ prev' = Summary(out)
    /\ state' = newState
    /\ remote' = store
    /\ UNCHANGED <<client, kind, service, work>>

\* a reconciler invocation that ends after one client call: on a client
\* error an error diagnostic and no state change, else `effect` and `s`
\* a configuration the framework rejects: an error diagnostic, the
\* reconciler is not invoked
Rejected(op, id, plan) == Finish(op, id, plan, <<>>, TRUE, "none", state, remote)

\* a failed client call that is made a second time
FailedAfterRetry(op, id, plan, calls, store) ==
    Finish(op, id, plan, calls \o calls, TRUE, "none", state, store)

\* a failed client call after which the resource is dropped from state
FailedDropsState(op, id, plan, calls, store) ==
    Finish(op, id, plan, calls, TRUE, "removed", NoState, store)

Failed(op, id, plan, calls, store) ==
    Finish(op, id, plan, calls, TRUE, "none", state, store)
Set(op, id, plan, calls, m, store) ==
    Finish(op, id, plan, calls, FALSE, "set", Has(m), store)
\* a return without resp.State.RemoveResource
Returned(op, id, calls, store) ==
    Finish(op, id, NullModel, calls, FALSE, "none", state, store)

Removed(op, id, calls, store) ==
    Finish(op, id, NullModel, calls, FALSE, "removed", NoState, store)

----------------------------------------------------------------------------
(* ServerResource *)

serverToModel(server, data) ==
    [data EXCEPT
        !.id = IdValue(server.id),
        !.name = StringValue(server.name),
        !.description = StringValue(server.description),
        !.visibility = StringValue(server.visibility),
        !.is_active = BoolValue(server.is_active),
        !.tags = IF ~server.tags.nil THEN ListValueFrom(server.tags) ELSE ListNull,
        !.tool_ids = IF ~server.tool_ids.nil THEN ListValueFrom(server.tool_ids)
                     ELSE ListNull]

ServerResourceCreate ==
    /\ kind = "server" /\ ~state.has /\ Len(remote) < MaxRemote
    /\ \E data \in ServerPlans :
        IF ~Validators("server", data) THEN Rejected("Create", <<>>, data) ELSE
        LET tags == ElementsAs(data.tags)
            createReq == CreateServerRequest(
                            ServerConfig(ValueString(data.name),
                                         ValueString(data.description), tags),
                            ValueString(data.visibility))
            req == CreateServerHTTP(client, createReq)
        IN  \E a \in Serve(req) :
            LET res == CreateServer(a.rsp)
                calls == <<Call("CreateServer", "create", <<>>, req, a.rsp, res)>>
            IN  IF res.err THEN Failed("Create", <<>>, data, calls, a.store)
                ELSE Set("Create", <<>>, data, calls,
                         serverToModel(res.entity.ent, data), a.store)

ServerResourceRead ==
    /\ kind = "server" /\ state.has
    /\ LET data == state.m
           id == ValueString(data.id)
           req == GetServerHTTP(client, id)
       IN  \E a \in Serve(req) :
           LET res == GetServer(a.rsp)
               calls == <<Call("GetServer", "get", id, req, a.rsp, res)>>
           IN  IF res.err THEN Failed("Read", id, NullModel, calls, a.store)
               ELSE IF res.entity.nil THEN Removed("Read", id, calls, a.store)
               ELSE Set("Read", id, NullModel, calls,
                        serverToModel(res.entity.ent, data), a.store)

\* an update request that also carries the declared visibility
serverUpdateReqWithVisibility(data) ==
    [ServerUpdate(ValueString(data.name), ValueString(data.description),
                  ElementsAs(data.tags), ElementsAs(data.tool_ids))
        EXCEPT !.visibility = ValueString(data.visibility)]

\* updateReq := client.ServerUpdate{Name, Description, Tags, ToolIDs}
serverUpdateReq(data) ==
    ServerUpdate(ValueString(data.name), ValueString(data.description),
                 ElementsAs(data.tags), ElementsAs(data.tool_ids))

ServerResourceUpdate ==
    /\ kind = "server" /\ state.has
    /\ \E data \in ServerPlans :
        IF ~Validators("server", data)
        THEN Rejected("Update", ValueString(data.id), data) ELSE
        LET id == ValueString(data.id)
            tags == ElementsAs(data.tags)
            updateReq == serverUpdateReq(data)
            req == UpdateHTTP("server", client, id, updateReq)
        IN  \E a \in Serve(req) :
            LET res == Update("server", a.rsp)
                calls == <<Call("UpdateServer", "update", id, req, a.rsp, res)>>
            IN  IF res.err THEN Failed("Update", id, data, calls, a.store)
                ELSE Set("Update", id, data, calls,
                         serverToModel(res.entity.ent, data), a.store)

\* after a Delete without error diagnostics the framework removes the state
ServerResourceDelete ==
    /\ kind = "server" /\ state.has
    /\ LET id == ValueString(state.m.id)
           req == DeleteServerHTTP(client, id)
       IN  \E a \in Serve(req) :
           LET res == DeleteServer(a.rsp)
               calls == <<Call("DeleteServer", "delete", id, req, a.rsp, res)>>
           IN  IF res.err THEN Failed("Delete", id, NullModel, calls, a.store)
               ELSE Removed("Delete", id, calls, a.store)

----------------------------------------------------------------------------
(* GatewayResource *)

\* client.GatewayCreate: IsActive is a bool, always on the wire
GatewayCreate(name, description, transport, isActive, tags, authValue) ==
    [NoBody EXCEPT !.present = TRUE, !.name = name, !.description = description,
                   !.transport = transport, !.is_active = SetTo(isActive),
                   !.tags = tags, !.auth_value = authValue]

\* client.GatewayUpdate: IsActive is a *bool
GatewayUpdate(name, description, transport, isActive, tags, authValue) ==
    [NoBody EXCEPT !.present = TRUE, !.name = name, !.description = description,
                   !.transport = transport, !.is_active = isActive,
                   !.tags = tags, !.auth_value = authValue]

gatewayToModel(gateway, data) ==
    [data EXCEPT
        !.id = IdValue(gateway.id),
        !.name = StringValue(gateway.name),
        !.description = StringValue(gateway.description),
        !.transport = StringValue(gateway.transport),
        !.is_active = BoolValue(gateway.is_active),
        !.auth_value = IF gateway.auth_value # ""
                       THEN StringValue(gateway.auth_value) ELSE StringNull,
        !.blob = IF ~gateway.blob.nil
                 THEN BlobValue(MarshalMap(gateway.blob.v)) ELSE BlobNull,
        !.tags = IF ~gateway.tags.nil THEN ListValueFrom(gateway.tags)
                 ELSE ListNull]

\* the mapped model as it is, without the restore
KeepMapped(authValue, data) == data

\* if !authValue.IsNull() && !authValue.IsUnknown() { data.AuthValue = authValue }
RestoreAuthValue(authValue, data) ==
    IF ~IsNull(authValue) /\ ~IsUnknown(authValue)
    THEN [data EXCEPT !.auth_value = authValue] ELSE data

\* the declared flag taken as it is, without the default
isActiveCreateNoDefault(data) == ValueBool(data.is_active)

\* isActiveCreate := true; if !data.IsActive.IsNull() &&
\* !data.IsActive.IsUnknown() { isActiveCreate = data.IsActive.ValueBool() }
isActiveCreate(data) ==
    IF ~IsNull(data.is_active) /\ ~IsUnknown(data.is_active)
    THEN ValueBool(data.is_active) ELSE TRUE

GatewayResourceCreate ==
    /\ kind = "gateway" /\ ~state.has /\ Len(remote) < MaxRemote
    /\ \E data \in GatewayPlans :
        IF ~Validators("gateway", data) THEN Rejected("Create", <<>>, data) ELSE
        LET tags == ElementsAs(data.tags)
            caps == ParseBlob("gateway", data.blob)
            createReq == [GatewayCreate(ValueString(data.name),
                                        ValueString(data.description),
                                        ValueString(data.transport),
                                        isActiveCreate(data), tags,
                                        ValueString(data.auth_value))
                            EXCEPT !.blob = AsBlob(caps)]
            req == CreateHTTP("gateway", client, createReq)
        IN  IF caps.err
            THEN Finish("Create", <<>>, data, <<>>, TRUE, "none", state, remote)
            ELSE \E a \in Serve(req) :
            LET res == Create("gateway", a.rsp)
                calls == <<Call("CreateGateway", "create", <<>>, req, a.rsp, res)>>
            IN  IF res.err THEN Failed("Create", <<>>, data, calls, a.store)
                ELSE Set("Create", <<>>, data, calls,
                         gatewayToModel(res.entity.ent, data), a.store)

GatewayResourceRead ==
    /\ kind = "gateway" /\ state.has
    /\ LET data == state.m
           id == ValueString(data.id)
           req == GetHTTP("gateway", client, id)
       IN  \E a \in Serve(req) :
           LET res == Get("gateway", a.rsp)
               calls == <<Call("GetGateway", "get", id, req, a.rsp, res)>>
               authValue == data.auth_value
           IN  IF res.err THEN Failed("Read", id, NullModel, calls, a.store)
               ELSE IF res.entity.nil THEN Removed("Read", id, calls, a.store)
               ELSE Set("Read", id, NullModel, calls,
                        RestoreAuthValue(authValue,
                            gatewayToModel(res.entity.ent, data)), a.store)

GatewayResourceUpdate ==
    /\ kind = "gateway" /\ state.has
    /\ \E data \in GatewayPlans :
        IF ~Validators("gateway", data)
        THEN Rejected("Update", ValueString(data.id), data) ELSE
        LET id == ValueString(data.id)
            tags == ElementsAs(data.tags)
            isActive == ValueBool(data.is_active)
            caps == ParseBlob("gateway", data.blob)
            updateReq == [GatewayUpdate(ValueString(data.name),
                                        ValueString(data.description),
                                        ValueString(data.transport),
                                        SetTo(isActive), tags,
                                        ValueString(data.auth_value))
                            EXCEPT !.blob = AsBlob(caps)]
            req == UpdateHTTP("gateway", client, id, updateReq)
        IN  IF caps.err
            THEN Finish("Update", id, data, <<>>, TRUE, "none", state, remote)
            ELSE \E a \in Serve(req) :
            LET res == Update("gateway", a.rsp)
                calls == <<Call("UpdateGateway", "update", id, req, a.rsp, res)>>
                authValue == data.auth_value
            IN  IF res.err THEN Failed("Update", id, data, calls, a.store)
                ELSE Set("Update", id, data, calls,
                         RestoreAuthValue(authValue,
                             gatewayToModel(res.entity.ent, data)), a.store)

GatewayResourceDelete ==
    /\ kind = "gateway" /\ state.has
    /\ LET id == ValueString(state.m.id)
           req == DeleteHTTP("gateway", client, id)
       IN  \E a \in Serve(req) :
           LET res == Delete("gateway", a.rsp)
               calls == <<Call("DeleteGateway", "delete", id, req, a.rsp, res)>>
           IN  IF res.err THEN Failed("Delete", id, NullModel, calls, a.store)
               ELSE Removed("Delete", id, calls, a.store)

----------------------------------------------------------------------------
(* ToolResource *)

\* client.CreateToolRequest{Tool: client.ToolCreate{...}, Visibility}
CreateToolRequest(name, description, inputSchema, tags, visibility) ==
    [NoBody EXCEPT !.present = TRUE, !.envelope = "tool", !.name = name,
                   !.blob = inputSchema,
                   !.description = description, !.tags = tags,
                   !.visibility = visibility]

ToolUpdate(name, description, inputSchema, tags) ==
    [NoBody EXCEPT !.present = TRUE, !.name = name, !.blob = inputSchema,
                   !.description = description, !.tags = tags]

toolToModel(tool, data) ==
    [data EXCEPT
        !.id = IdValue(tool.id),
        !.name = StringValue(tool.name),
        !.description = StringValue(tool.description),
        !.is_active = BoolValue(tool.is_active),
        !.visibility = StringValue(tool.visibility),
        !.blob = IF ~tool.blob.nil
                 THEN BlobValue(MarshalMap(tool.blob.v)) ELSE BlobNull,
        !.tags = ListValueFrom(tool.tags)]

ToolResourceCreate ==
    /\ kind = "tool" /\ ~state.has /\ Len(remote) < MaxRemote
    /\ \E data \in ToolPlans :
        IF ~Validators("tool", data) THEN Rejected("Create", <<>>, data) ELSE
        LET tags == ElementsAs(data.tags)
            inputSchema == ParseBlob("tool", data.blob)
            createReq == CreateToolRequest(ValueString(data.name),
                                           ValueString(data.description),
                                           AsBlob(inputSchema), tags,
                                           ValueString(data.visibility))
            req == CreateHTTP("tool", client, createReq)
        IN  IF inputSchema.err
            THEN Finish("Create", <<>>, data, <<>>, TRUE, "none", state, remote)
            ELSE \E a \in Serve(req) :
            LET res == Create("tool", a.rsp)
                calls == <<Call("CreateTool", "create", <<>>, req, a.rsp, res)>>
            IN  IF res.err THEN Failed("Create", <<>>, data, calls, a.store)
                ELSE Set("Create", <<>>, data, calls,
                         toolToModel(res.entity.ent, data), a.store)

ToolResourceRead ==
    /\ kind = "tool" /\ state.has
    /\ LET data == state.m
           id == ValueString(data.id)
           req == GetHTTP("tool", client, id)
       IN  \E a \in Serve(req) :
           LET res == Get("tool", a.rsp)
               calls == <<Call("GetTool", "get", id, req, a.rsp, res)>>
           IN  IF res.err THEN Failed("Read", id, NullModel, calls, a.store)
               ELSE IF res.entity.nil THEN Removed("Read", id, calls, a.store)
               ELSE Set("Read", id, NullModel, calls,
                        toolToModel(res.entity.ent, data), a.store)

ToolResourceUpdate ==
    /\ kind = "tool" /\ state.has
    /\ \E data \in ToolPlans :
        IF ~Validators("tool", data)
        THEN Rejected("Update", ValueString(data.id), data) ELSE
        LET id == ValueString(data.id)
            tags == ElementsAs(data.tags)
            inputSchema == ParseBlob("tool", data.blob)
            updateReq == ToolUpdate(ValueString(data.name),
                                    ValueString(data.description),
                                    AsBlob(inputSchema), tags)
            req == UpdateHTTP("tool", client, id, updateReq)
        IN  IF inputSchema.err
            THEN Finish("Update", id, data, <<>>, TRUE, "none", state, remote)
            ELSE \E a \in Serve(req) :
            LET res == Update("tool", a.rsp)
                calls == <<Call("UpdateTool", "update", id, req, a.rsp, res)>>
            IN  IF res.err THEN Failed("Update", id, data, calls, a.store)
                ELSE Set("Update", id, data, calls,
                         toolToModel(res.entity.ent, data), a.store)

ToolResourceDelete ==
    /\ kind = "tool" /\ state.has
    /\ LET id == ValueString(state.m.id)
           req == DeleteHTTP("tool", client, id)
       IN  \E a \in Serve(req) :
           LET res == Delete("tool", a.rsp)
               calls == <<Call("DeleteTool", "delete", id, req, a.rsp, res)>>
           IN  IF res.err THEN Failed("Delete", id, NullModel, calls, a.store)
               ELSE Removed("Delete", id, calls, a.store)

----------------------------------------------------------------------------
(* MCPResourceResource *)

\* client.CreateResourceRequest{Resource: client.ResourceCreate{...}, Visibility}
CreateResourceRequest(uri, name, description, tags, visibility) ==
    [NoBody EXCEPT !.present = TRUE, !.envelope = "resource", !.uri = uri,
                   !.name = name, !.description = description, !.tags = tags,
                   !.visibility = visibility]

ResourceUpdate(uri, name, description, tags) ==
    [NoBody EXCEPT !.present = TRUE, !.uri = uri, !.name = name,
                   !.description = description, !.tags = tags]

resourceToModel(mcpResource, data) ==
    [data EXCEPT
        !.id = IdValue(mcpResource.id),
        !.uri = IdValue(mcpResource.uri),
        !.name = StringValue(mcpResource.name),
        !.description = StringValue(mcpResource.description),
        !.is_active = BoolValue(mcpResource.is_active),
        !.visibility = StringValue(mcpResource.visibility),
        !.tags = IF ~mcpResource.tags.nil THEN ListValueFrom(mcpResource.tags)
                 ELSE ListNull]

MCPResourceResourceCreate ==
    /\ kind = "resource" /\ ~state.has /\ Len(remote) < MaxRemote
    /\ \E data \in MCPResourcePlans :
        IF ~Validators("resource", data) THEN Rejected("Create", <<>>, data) ELSE
        LET tags == ElementsAs(data.tags)
            createReq == CreateResourceRequest(ValueString(data.uri), ValueString(data.name),
                                               ValueString(data.description), tags,
                                               ValueString(data.visibility))
            req == CreateHTTP("resource", client, createReq)
        IN  \E a \in Serve(req) :
            LET res == Create("resource", a.rsp)
                calls == <<Call("CreateResource", "create", <<>>, req, a.rsp, res)>>
            IN  IF res.err THEN Failed("Create", <<>>, data, calls, a.store)
                ELSE Set("Create", <<>>, data, calls,
                         resourceToModel(res.entity.ent, data), a.store)

MCPResourceResourceRead ==
    /\ kind = "resource" /\ state.has
    /\ LET data == state.m
           id == ValueString(data.id)
           req == GetHTTP("resource", client, id)
       IN  \E a \in Serve(req) :
           LET res == Get("resource", a.rsp)
               calls == <<Call("GetResource", "get", id, req, a.rsp, res)>>
           IN  IF res.err THEN Failed("Read", id, NullModel, calls, a.store)
               ELSE IF res.entity.nil THEN Removed("Read", id, calls, a.store)
               ELSE Set("Read", id, NullModel, calls,
                        resourceToModel(res.entity.ent, data), a.store)

MCPResourceResourceUpdate ==
    /\ kind = "resource" /\ state.has
    /\ \E data \in MCPResourcePlans :
        IF ~Validators("resource", data)
        THEN Rejected("Update", ValueString(data.id), data) ELSE
        LET id == ValueString(data.id)
            tags == ElementsAs(data.tags)
            updateReq == ResourceUpdate(ValueString(data.uri), ValueString(data.name),
                                        ValueString(data.description), tags)
            req == UpdateHTTP("resource", client, id, updateReq)
        IN  \E a \in Serve(req) :
            LET res == Update("resource", a.rsp)
                calls == <<Call("UpdateResource", "update", id, req, a.rsp, res)>>
            IN  IF res.err THEN Failed("Update", id, data, calls, a.store)
                ELSE Set("Update", id, data, calls,
                         resourceToModel(res.entity.ent, data), a.store)

MCPResourceResourceDelete ==
    /\ kind = "resource" /\ state.has
    /\ LET id == ValueString(state.m.id)
           req == DeleteHTTP("resource", client, id)
       IN  \E a \in Serve(req) :
           LET res == Delete("resource", a.rsp)
               calls == <<Call("DeleteResource", "delete", id, req, a.rsp, res)>>
           IN  IF res.err THEN Failed("Delete", id, NullModel, calls, a.store)
               ELSE Removed("Delete", id, calls, a.store)

----------------------------------------------------------------------------
(* PromptResource *)

\* client.CreatePromptRequest{Prompt: client.PromptCreate{...}, Visibility}
CreatePromptRequest(name, description, arguments, tags, visibility) ==
    [NoBody EXCEPT !.present = TRUE, !.envelope = "prompt", !.name = name,
                   !.blob = arguments,
                   !.description = description, !.tags = tags,
                   !.visibility = visibility]

PromptUpdate(name, description, arguments, tags) ==
    [NoBody EXCEPT !.present = TRUE, !.name = name, !.blob = arguments,
                   !.description = description, !.tags = tags]

promptToModel(prompt, data) ==
    [data EXCEPT
        !.id = IdValue(prompt.id),
        !.name = StringValue(prompt.name),
        !.description = StringValue(prompt.description),
        !.is_active = BoolValue(prompt.is_active),
        !.visibility = StringValue(prompt.visibility),
        !.blob = IF ~prompt.blob.nil
                 THEN BlobValue(MarshalArguments(prompt.blob.v)) ELSE BlobNull,
        !.tags = IF ~prompt.tags.nil THEN ListValueFrom(prompt.tags)
                 ELSE ListNull]

PromptResourceCreate ==
    /\ kind = "prompt" /\ ~state.has /\ Len(remote) < MaxRemote
    /\ \E data \in PromptPlans :
        IF ~Validators("prompt", data) THEN Rejected("Create", <<>>, data) ELSE
        LET tags == ElementsAs(data.tags)
            arguments == ParseBlob("prompt", data.blob)
            createReq == CreatePromptRequest(ValueString(data.name),
                                             ValueString(data.description),
                                             AsBlob(arguments), tags,
                                             ValueString(data.visibility))
            req == CreateHTTP("prompt", client, createReq)
        IN  IF arguments.err
            THEN Finish("Create", <<>>, data, <<>>, TRUE, "none", state, remote)
            ELSE \E a \in Serve(req) :
            LET res == Create("prompt", a.rsp)
                calls == <<Call("CreatePrompt", "create", <<>>, req, a.rsp, res)>>
            IN  IF res.err THEN Failed("Create", <<>>, data, calls, a.store)
                ELSE Set("Create", <<>>, data, calls,
                         promptToModel(res.entity.ent, data), a.store)

PromptResourceRead ==
    /\ kind = "prompt" /\ state.has
    /\ LET data == state.m
           id == ValueString(data.id)
           req == GetHTTP("prompt", client, id)
       IN  \E a \in Serve(req) :
           LET res == Get("prompt", a.rsp)
               calls == <<Call("GetPrompt", "get", id, req, a.rsp, res)>>
           IN  IF res.err THEN Failed("Read", id, NullModel, calls, a.store)
               ELSE IF res.entity.nil THEN Removed("Read", id, calls, a.store)
               ELSE Set("Read", id, NullModel, calls,
                        promptToModel(res.entity.ent, data), a.store)

PromptResourceUpdate ==
    /\ kind = "prompt" /\ state.has
    /\ \E data \in PromptPlans :
        IF ~Validators("prompt", data)
        THEN Rejected("Update", ValueString(data.id), data) ELSE
        LET id == ValueString(data.id)
            tags == ElementsAs(data.tags)
            arguments == ParseBlob("prompt", data.blob)
            updateReq == PromptUpdate(ValueString(data.name),
                                      ValueString(data.description),
                                      AsBlob(arguments), tags)
            req == UpdateHTTP("prompt", client, id, updateReq)
        IN  IF arguments.err
            THEN Finish("Update", id, data, <<>>, TRUE, "none", state, remote)
            ELSE \E a \in Serve(req) :
            LET res == Update("prompt", a.rsp)
                calls == <<Call("UpdatePrompt", "update", id, req, a.rsp, res)>>
            IN  IF res.err THEN Failed("Update", id, data, calls, a.store)
                ELSE Set("Update", id, data, calls,
                         promptToModel(res.entity.ent, data), a.store)

PromptResourceDelete ==
    /\ kind = "prompt" /\ state.has
    /\ LET id == ValueString(state.m.id)
           req == DeleteHTTP("prompt", client, id)
       IN  \E a \in Serve(req) :
           LET res == Delete("prompt", a.rsp)
               calls == <<Call("DeletePrompt", "delete", id, req, a.rsp, res)>>
           IN  IF res.err THEN Failed("Delete", id, NullModel, calls, a.store)
               ELSE Removed("Delete", id, calls, a.store)

----------------------------------------------------------------------------
(* RootResource *)

\* client.Root{URI, Name}
Root(uri, name) ==
    [NoBody EXCEPT !.present = TRUE, !.uri = uri, !.name = name]

\* the scan without the break: the last entry with the URI
FindLast(roots, uri) ==
    LET at == {i \in DOMAIN roots : roots[i].uri = uri}
    IN  IF at = {} THEN NoEntity
        ELSE Entity(roots[CHOOSE i \in at : \A j \in at : j <= i])

\* for _, root := range roots { if root.URI == uri { found = &root; break } }
RECURSIVE Find(_, _)
Find(roots, uri) ==
    IF roots = <<>> THEN NoEntity
    ELSE IF Head(roots).uri = uri THEN Entity(Head(roots))
    ELSE Find(Tail(roots), uri)

RootResourceCreate ==
    /\ kind = "root" /\ ~state.has /\ Len(remote) < MaxRemote
    /\ \E data \in RootPlans :
        LET createReq == Root(ValueString(data.uri), ValueString(data.name))
            req == CreateHTTP("root", client, createReq)
        IN  \E a \in Serve(req) :
            LET res == Create("root", a.rsp)
                root == res.entity.ent
                calls == <<Call("CreateRoot", "create", <<>>, req, a.rsp, res)>>
            IN  IF res.err THEN Failed("Create", <<>>, data, calls, a.store)
                ELSE Set("Create", <<>>, data, calls,
                         [data EXCEPT
                            !.uri = IdValue(root.uri),
                            !.name = IF root.name # "" THEN StringValue(root.name)
                                     ELSE IF IsNull(data.name) \/ IsUnknown(data.name)
                                          THEN StringNull ELSE @],
                         a.store)

RootResourceRead ==
    /\ kind = "root" /\ state.has
    /\ LET data == state.m
           uri == ValueString(data.uri)
           req == ListHTTP("root", client)
       IN  \E a \in Serve(req) :
           LET res == List("root", a.rsp)
               calls == <<Call("ListRoots", "list", <<>>, req, a.rsp, res)>>
               found == Find(res.list, uri)
           IN  IF res.err THEN Failed("Read", uri, NullModel, calls, a.store)
               ELSE IF found.nil THEN Removed("Read", uri, calls, a.store)
               ELSE Set("Read", uri, NullModel, calls,
                        [data EXCEPT
                            !.uri = IdValue(found.ent.uri),
                            !.name = IF found.ent.name # ""
                                     THEN StringValue(found.ent.name)
                                     ELSE StringNull],
                        a.store)

\* an Update that writes the plan to the state, as the former
\* ServerResource.Update does
RootResourceUpdateSetsPlan ==
    /\ kind = "root" /\ state.has
    /\ \E data \in RootPlans :
        Finish("Update", ValueString(state.m.uri), data, <<>>, FALSE, "set",
               Has(data), remote)

\* only resp.Diagnostics.AddError("Unexpected Update", ...)
RootResourceUpdate ==
    /\ kind = "root" /\ state.has
    /\ \E data \in RootPlans :
        Finish("Update", ValueString(state.m.uri), data, <<>>, TRUE, "none",
               state, remote)

RootResourceDelete ==
    /\ kind = "root" /\ state.has
    /\ LET uri == ValueString(state.m.uri)
           req == DeleteHTTP("root", client, uri)
       IN  \E a \in Serve(req) :
           LET res == Delete("root", a.rsp)
               calls == <<Call("DeleteRoot", "delete", uri, req, a.rsp, res)>>
           IN  IF res.err THEN Failed("Delete", uri, NullModel, calls, a.store)
               ELSE Removed("Delete", uri, calls, a.store)

----------------------------------------------------------------------------
(* Direct use of the client, as the data sources and other callers make it: *)
(* a Create, a Get, a Delete or a List of the kind, on any identity.        *)

\* what another caller creates: an entity named "other"; a root at any URI
OtherBodies ==
    IF kind = "root" THEN {Root(u, "other") : u \in Uris}
    ELSE {[NoBody EXCEPT !.present = TRUE, !.name = "other",
                         !.is_active = SetTo(TRUE)]}

ClientCreate ==
    /\ Len(remote) < MaxRemote
    /\ \E body \in OtherBodies :
        LET req == CreateHTTP(kind, client, body)
        IN  \E a \in Serve(req) :
            LET res == Create(kind, a.rsp)
            IN  Finish("ClientCreate", <<>>, NullModel,
                       <<Call("Create", "create", <<>>, req, a.rsp, res)>>,
                       res.err, "none", state, a.store)

ClientGet ==
    /\ kind # "root"
    /\ \E id \in Keys :
        LET req == GetHTTP(kind, client, id)
        IN  \E a \in Serve(req) :
            LET res == Get(kind, a.rsp)
            IN  Finish("ClientGet", id, NullModel,
                       <<Call("Get", "get", id, req, a.rsp, res)>>,
                       res.err, "none", state, a.store)

ClientDelete ==
    \E id \in Keys :
        LET req == DeleteHTTP(kind, client, id)
        IN  \E a \in Serve(req) :
            LET res == Delete(kind, a.rsp)
            IN  Finish("ClientDelete", id, NullModel,
                       <<Call("Delete", "delete", id, req, a.rsp, res)>>,
                       res.err, "none", state, a.store)

ClientList ==
    LET req == ListHTTP(kind, client)
    IN  \E a \in Serve(req) :
        LET res == List(kind, a.rsp)
        IN  Finish("ClientList", <<>>, NullModel,
                   <<Call("List", "list", <<>>, req, a.rsp, res)>>,
                   res.err, "none", state, a.store)

\* HealthDataSource.Read: the health of the service, read with the shared
\* client
HealthDataSourceRead ==
    LET req == GetHealthHTTP(client)
    IN  \E a \in Serve(req) :
        LET res == GetHealth(a.rsp)
        IN  Finish("HealthRead", <<>>, NullModel,
                   <<Call("GetHealth", "health", <<>>, req, a.rsp, res)>>,
                   res.err, "none", state, a.store)

----------------------------------------------------------------------------
(* Construction *)

\* an endpoint URL as configured: a host and trailing slashes
Endpoint(host, slashes) == [host |-> host, slashes |-> slashes]

\* strings.TrimRight(baseURL, "/")
TrimRight(u) == [u EXCEPT !.slashes = 0]

NewClient(baseURL, bearerToken) ==
    [BaseURL |-> TrimRight(baseURL), BearerToken |-> bearerToken]

Endpoints == {Endpoint("gw", 1)}
Tokens == {"", "test-token"}

\* the provider is configured with or without a token; the service
\* withholds auth_value where an entity has one (Gateway), and the client
\* without a token is run against the plain store
NoWork == [stage |-> "none"]

Init ==
    /\ client \in {NewClient(e, t) : e \in Endpoints, t \in Tokens}
    /\ kind \in Kinds
    /\ service \in ServiceModes
    /\ service = "withhold" => kind = "gateway"
    /\ service = "garble" => kind \in {"server", "prompt"}
    /\ client.BearerToken = "" => service = "echo" /\ kind = "server"
    /\ remote = <<>>
    /\ state = NoState
    /\ out = NoOut
    /\ prev = NoSummary
    /\ work = NoWork

Next ==
    \/ ServerResourceCreate \/ ServerResourceRead
    \/ ServerResourceUpdate \/ ServerResourceDelete
    \/ GatewayResourceCreate \/ GatewayResourceRead
    \/ GatewayResourceUpdate \/ GatewayResourceDelete
    \/ ToolResourceCreate \/ ToolResourceRead
    \/ ToolResourceUpdate \/ ToolResourceDelete
    \/ MCPResourceResourceCreate \/ MCPResourceResourceRead
    \/ MCPResourceResourceUpdate \/ MCPResourceResourceDelete
    \/ PromptResourceCreate \/ PromptResourceRead
    \/ PromptResourceUpdate \/ PromptResourceDelete
    \/ RootResourceCreate \/ RootResourceRead
    \/ RootResourceUpdate \/ RootResourceDelete
    \/ ClientCreate \/ ClientGet \/ ClientDelete \/ ClientList
    \/ HealthDataSourceRead

Spec == Init /\ [][Next]_vars

----------------------------------------------------------------------------
(* Data sources: lookups that read the service with the shared client and  *)
(* write a data-source state of their own (in `work`); they manage no      *)
(* resource.  The store they read is drawn at the start.                   *)

\* a list function of the client called with the flag: ListServers, and
\* ListGateways, ListTools, ListResources, ListPrompts by the same contract
ListWithHTTP(k, c, includeInactive) ==
    IF k = "server" THEN ListServersRequest(c, includeInactive)
    ELSE doRequestWithQuery(c, "GET", <<Lit(CollectionPath(k))>>,
             IF includeInactive THEN "include_inactive=true"
                                ELSE "include_inactive=false", NoBody)

\* includeInactive := false; if !data.IncludeInactive.IsNull() &&
\* !data.IncludeInactive.IsUnknown() { includeInactive = ...ValueBool() }
includeInactive(flag) ==
    IF ~IsNull(flag) /\ ~IsUnknown(flag) THEN ValueBool(flag) ELSE FALSE

\* ServerItemModel{...}: one entry of the list written to the data source
ItemModel(e) ==
    [id |-> IdValue(e.id), name |-> StringValue(e.name),
     description |-> StringValue(e.description),
     tags |-> ListValueFrom(e.tags), visibility |-> StringValue(e.visibility)]

\* what a data source hands back: the diagnostic, whether state was set,
\* and the state
Looked(stage, config, diag, set, items, m) ==
    [stage |-> stage, config |-> config, diag |-> diag, set |-> set,
     items |-> items, m |-> m]

Lookup(op, id, calls, err, w) ==
    /\ out' = [NoOut EXCEPT !.op = op, !.id = id, !.calls = calls, !.err = err]
    /\ prev' = NoSummary
    /\ work' = w
    /\ UNCHANGED <<client, kind, service, remote, state>>

\* ServersDataSource.Read, and GatewaysDataSource, ToolsDataSource,
\* MCPResourcesDataSource, PromptsDataSource
ListDataSourceRead ==
    /\ kind # "root"
    /\ \E flag \in {BoolNull, BoolUnknown, BoolValue(TRUE), BoolValue(FALSE)} :
        LET req == ListWithHTTP(kind, client, includeInactive(flag))
        IN  \E a \in Serve(req) :
            LET res == List(kind, a.rsp)
                calls == <<Call("List", "list", <<>>, req, a.rsp, res)>>
            IN  IF res.err
                THEN Lookup("ListRead", <<>>, calls, TRUE,
                            Looked("list", flag, "Client Error", FALSE, <<>>,
                                   NullModel))
                ELSE Lookup("ListRead", <<>>, calls, FALSE,
                            Looked("list", flag, "", TRUE,
                                   [i \in 1..Len(res.list) |-> ItemModel(res.list[i])],
                                   NullModel))

\* a data source that treats an absent entity as found
DataSourceItemFromNil(res, data) ==
    IF res.err THEN Looked("item", data.id, "Client Error", FALSE, <<>>, NullModel)
    ELSE Looked("item", data.id, "", TRUE, <<>>,
                [data EXCEPT !.id = IdValue(res.entity.ent.id),
                             !.name = StringValue(res.entity.ent.name),
                             !.description = StringValue(res.entity.ent.description),
                             !.visibility = StringValue(res.entity.ent.visibility),
                             !.is_active = BoolValue(res.entity.ent.is_active),
                             !.tags = ListValueFrom(res.entity.ent.tags),
                             !.tool_ids = ListValueFrom(res.entity.ent.tool_ids)])

\* the body of ServerDataSource.Read after the Get: a client error and an
\* absent entity are error diagnostics, an entity is mapped and set
DataSourceItem(res, data) ==
    IF res.err THEN Looked("item", data.id, "Client Error", FALSE, <<>>, NullModel)
    ELSE IF res.entity.nil
         THEN Looked("item", data.id, "Not Found", FALSE, <<>>, NullModel)
    ELSE Looked("item", data.id, "", TRUE, <<>>,
                [data EXCEPT !.id = IdValue(res.entity.ent.id),
                             !.name = StringValue(res.entity.ent.name),
                             !.description = StringValue(res.entity.ent.description),
                             !.visibility = StringValue(res.entity.ent.visibility),
                             !.is_active = BoolValue(res.entity.ent.is_active),
                             !.tags = ListValueFrom(res.entity.ent.tags),
                             !.tool_ids = ListValueFrom(res.entity.ent.tool_ids)])

\* ServerDataSource.Read, and GatewayDataSource, ToolDataSource,
\* MCPResourceDataSource, PromptDataSource
ItemDataSourceRead ==
    /\ kind # "root"
    /\ \E id \in Ids :
        LET data == [NullModel EXCEPT !.id = IdValue(id)]
            req == GetHTTP(kind, client, ValueString(data.id))
        IN  \E a \in Serve(req) :
            LET res == Get(kind, a.rsp)
                calls == <<Call("Get", "get", id, req, a.rsp, res)>>
                w == DataSourceItem(res, data)
            IN  Lookup("ItemRead", id, calls, w.diag # "", w)

\* the stores a lookup may find
Stores ==
    {<<>>} \cup {<<e>> : e \in ArbEntities}
           \cup {l \in {<<e, f>> : e \in ArbEntities, f \in ArbEntities} :
                     l[1] # l[2]}

LookupInit ==
    /\ client = NewClient(Endpoint("gw", 1), "test-token")
    /\ kind \in Kinds \ {"root"}
    /\ service \in {"echo", "arbitrary"}
    /\ remote \in Stores
    /\ service = "arbitrary" => remote = <<>>
    /\ state = NoState
    /\ out = NoOut
    /\ prev = NoSummary
    /\ work = NoWork

LookupNext == ListDataSourceRead \/ ItemDataSourceRead

SpecLookup == LookupInit /\ [][LookupNext]_vars

----------------------------------------------------------------------------
(* Two reconcilers of the kind that share the one Client the provider made. *)
(* An operation is three steps, so that the steps of the two interleave:    *)
(* the request is built from the Client, HTTPClient.Do sends it, and the    *)
(* response is decoded.                                                     *)

Procs == {1, 2}

\* a Client whose token is spent by the request that carried it
SharedForgetsToken(c, req) == [c EXCEPT !.BearerToken = ""]

\* the Client after an operation has used it: doRequestWithQuery and the
\* reconcilers read c.BaseURL, c.BearerToken and c.HTTPClient and assign to
\* none of them
Shared(c, req) == c

SharedRequest(k, c, op, id) ==
    CASE op = "Create" -> CreateHTTP(k, c, IF k = "root" THEN Root(UriPool[1], "other")
                                           ELSE ServerConfig("other", "", NilSlice))
      [] op = "Get" -> GetHTTP(k, c, id)
      [] op = "Delete" -> DeleteHTTP(k, c, id)
      [] op = "List" -> ListHTTP(k, c)

SharedResult(k, op, rsp) ==
    CASE op = "Create" -> Create(k, rsp)
      [] op = "Get" -> Get(k, rsp)
      [] op = "Delete" -> Delete(k, rsp)
      [] op = "List" -> List(k, rsp)

Idle ==
    [pc |-> "idle", op |-> "", id |-> <<>>,
     req |-> doRequest(NewClient(Endpoint("", 0), ""), "", <<>>, NoBody),
     rsp |-> TransportError, res |-> Result(NoEntity, FALSE)]

SharedInit ==
    /\ client \in {NewClient(e, t) : e \in Endpoints, t \in Tokens}
    /\ kind \in Kinds
    /\ service = "echo"
    /\ remote = <<>>
    /\ state = NoState
    /\ out = NoOut
    /\ prev = NoSummary
    /\ work = [stage |-> "shared", made |-> client, procs |-> [p \in Procs |-> Idle]]

SharedStep(p, proc, c, store) ==
    /\ work' = [work EXCEPT !.procs[p] = proc]
    /\ client' = c
    /\ remote' = store
    /\ UNCHANGED <<kind, service, state, out, prev>>

\* the operation builds its request from the Client
SharedBuild(p) ==
    /\ work.procs[p].pc = "idle"
    /\ \E op \in {"Create", "Get", "Delete", "List"}, id \in {IF kind = "root" THEN UriPool[1] ELSE IdPool[1]} :
        /\ kind = "root" => op # "Get"
        /\ LET req == SharedRequest(kind, client, op, id)
           IN  SharedStep(p, [work.procs[p] EXCEPT !.pc = "built", !.op = op,
                                                   !.id = id, !.req = req],
                          Shared(client, req), remote)

\* c.HTTPClient.Do(req): the service answers
SharedDo(p) ==
    /\ work.procs[p].pc = "built"
    /\ \E a \in Serve(work.procs[p].req) :
          SharedStep(p, [work.procs[p] EXCEPT !.pc = "answered", !.rsp = a.rsp],
                     Shared(client, work.procs[p].req), a.store)

\* the response is decoded and returned
SharedReturn(p) ==
    /\ work.procs[p].pc = "answered"
    /\ SharedStep(p, [work.procs[p] EXCEPT !.pc = "done",
                          !.res = SharedResult(kind, work.procs[p].op,
                                               work.procs[p].rsp)],
                  client, remote)

SharedNext == \E p \in Procs : SharedBuild(p) \/ SharedDo(p) \/ SharedReturn(p)

SpecShared == SharedInit /\ [][SharedNext]_vars

----------------------------------------------------------------------------
(* Item paths on their own: the request an item operation builds for an     *)
(* identity drawn from the strings over a small alphabet.                   *)

MaxIdLen == 2
PathChars == {"a", "/", ":", "%", "."}
PathIds == UNION {[1..n -> PathChars] : n \in 1..MaxIdLen}

\* the request of c.Get<Kind>, c.Update<Kind>, c.Delete<Kind> for an identity
ItemRequest(k, c, op, id) ==
    CASE op = "Get" -> GetHTTP(k, c, id)
      [] op = "Update" -> UpdateHTTP(k, c, id, NoBody)
      [] op = "Delete" -> DeleteHTTP(k, c, id)

PathInit ==
    /\ client = NewClient(Endpoint("gw", 0), "test-token")
    /\ kind \in Kinds
    /\ service = "echo"
    /\ remote = <<>>
    /\ state = NoState
    /\ out = NoOut
    /\ prev = NoSummary
    /\ work = NoWork

\* an item operation builds its request; RootResource has Delete only
BuildItemRequest ==
    /\ \E op \in {"Get", "Update", "Delete"}, id \in PathIds :
          /\ kind = "root" => op = "Delete"
          /\ work' = [stage |-> "path", op |-> op, id |-> id,
                      req |-> ItemRequest(kind, client, op, id)]
    /\ UNCHANGED <<client, kind, service, remote, state, out, prev>>

SpecPath == PathInit /\ [][BuildItemRequest]_vars

----------------------------------------------------------------------------
(* The structured-field round trip on its own: a declared text is decoded  *)
(* into the request value as Create and Update do, the service returns the *)
(* value it was sent, and the mapping encodes it into the state text.      *)

Leaves ==
    {JNull, JBool(TRUE), JString("s"), JNumber(Num(0, 1)),
     JNumber(Num(2^26, 0)), JNumber(Num(2^26, 1))}

Nested ==
    {JObject({<<"a", v>>}) : v \in Leaves} \cup {JArray(<<v>>) : v \in Leaves}

\* valid JSON objects, up to three levels deep
ObjectDocs ==
    {JObject({})}
        \cup {JObject({<<"type", v>>}) : v \in Leaves \cup Nested}
        \cup {JObject({<<"type", JString("object")>>, <<"properties", v>>}) :
                 v \in Nested}

\* valid JSON arrays of argument objects: with all, some or none of the
\* fields of an argument, and with a member the struct does not have
ArgumentObjects ==
    {PromptArgument("x", "d", TRUE), PromptArgument("y", "", FALSE),
     JObject({<<"name", JString("x")>>}),
     JObject({<<"name", JString("x")>>, <<"required", JBool(TRUE)>>}),
     JObject({<<"name", JString("x")>>, <<"description", JString("d")>>,
              <<"required", JBool(TRUE)>>, <<"default", JString("v")>>})}

ArrayDocs ==
    {JArray(<<>>)}
        \cup {JArray(<<a>>) : a \in ArgumentObjects}
        \cup {JArray(<<a, b>>) : a \in ArgumentObjects, b \in ArgumentObjects}

ValidDocs(k) == IF k = "prompt" THEN ArrayDocs ELSE ObjectDocs

Layouts == {"compact", "indented"}

BlobInit ==
    /\ client = NewClient(Endpoint("gw", 0), "")
    /\ kind \in BlobKinds
    /\ service = "echo"
    /\ remote = <<>>
    /\ state = NoState
    /\ out = NoOut
    /\ prev = NoSummary
    /\ work \in {[stage |-> "declared", text |-> JSONText(d, l),
                   value |-> NilBlob, encoded |-> BlobNull] :
                     d \in ValidDocs(kind), l \in Layouts}

\* the parse of Create and Update; a parse error ends the conversion
DecodeBlob ==
    /\ work.stage = "declared"
    /\ LET parsed == ParseBlob(kind, BlobValue(work.text))
       IN  work' = IF parsed.err THEN [work EXCEPT !.stage = "rejected"]
                   ELSE [work EXCEPT !.stage = "decoded",
                                     !.value = AsBlob(parsed)]
    /\ UNCHANGED <<client, kind, service, remote, state, out, prev>>

\* the mapping of the returned value by toolToModel, gatewayToModel,
\* promptToModel
EncodeBlob ==
    /\ work.stage = "decoded"
    /\ LET entity == [ZeroEntity EXCEPT !.blob = work.value]
           data == IF kind = "tool" THEN toolToModel(entity, NullModel)
                   ELSE IF kind = "gateway" THEN gatewayToModel(entity, NullModel)
                   ELSE promptToModel(entity, NullModel)
       IN  work' = [work EXCEPT !.stage = "encoded", !.encoded = data.blob]
    /\ UNCHANGED <<client, kind, service, remote, state, out, prev>>

BlobNext == DecodeBlob \/ EncodeBlob

SpecBlob == BlobInit /\ [][BlobNext]_vars

----------------------------------------------------------------------------
(* ContextForgeProvider.Configure on its own: the declared provider        *)
(* attributes and the environment are drawn at the start, Configure builds *)
(* the client from them.                                                   *)

EmptyEndpoint == Endpoint("", 0)
DefaultEndpoint == Endpoint("localhost:4444", 0)

EndpointNull == [k |-> "null", v |-> EmptyEndpoint]
EndpointUnknown == [k |-> "unknown", v |-> EmptyEndpoint]
EndpointValue(e) == [k |-> "known", v |-> e]

\* the endpoint with the environment consulted first
chooseEndpointEnvFirst(data, env) ==
    IF env # EmptyEndpoint THEN env
    ELSE IF ~IsNull(data) /\ ~IsUnknown(data) THEN data.v
    ELSE DefaultEndpoint

\* endpoint := "http://localhost:4444"; if !data.Endpoint.IsNull() &&
\* !data.Endpoint.IsUnknown() {...} else if v := os.Getenv(...); v != "" {...}
chooseEndpoint(data, env) ==
    IF ~IsNull(data) /\ ~IsUnknown(data) THEN ValueString(data)
    ELSE IF env # EmptyEndpoint THEN env
    ELSE DefaultEndpoint

\* bearerToken := ""; the same with MCPGATEWAY_BEARER_TOKEN
chooseBearerToken(data, env) ==
    IF ~IsNull(data) /\ ~IsUnknown(data) THEN ValueString(data)
    ELSE IF env # "" THEN env
    ELSE ""

DeclaredEndpoints ==
    {EndpointNull, EndpointUnknown, EndpointValue(EmptyEndpoint),
     EndpointValue(Endpoint("gw", 0)), EndpointValue(Endpoint("gw", 1))}
EnvEndpoints == {EmptyEndpoint, Endpoint("env", 0), Endpoint("env", 1)}
DeclaredTokens ==
    {StringNull, StringUnknown, StringValue(""), StringValue("test-token")}
EnvTokens == {"", "env-token"}

\* before Configure the resources hold no client
NoClient == [BaseURL |-> EmptyEndpoint, BearerToken |-> ""]

ConfigureInit ==
    /\ client = NoClient
    /\ kind = "server"
    /\ service = "echo"
    /\ remote = <<>>
    /\ state = NoState
    /\ out = NoOut
    /\ prev = NoSummary
    /\ work \in [stage : {"declared"},
                  endpoint : DeclaredEndpoints, envEndpoint : EnvEndpoints,
                  bearer_token : DeclaredTokens, envToken : EnvTokens]

Configure ==
    /\ work.stage = "declared"
    /\ LET endpoint == chooseEndpoint(work.endpoint, work.envEndpoint)
           bearerToken == chooseBearerToken(work.bearer_token, work.envToken)
       IN  client' = NewClient(endpoint, bearerToken)
    /\ work' = [work EXCEPT !.stage = "configured"]
    /\ UNCHANGED <<kind, service, remote, state, out, prev>>

SpecConfigure == ConfigureInit /\ [][Configure]_vars

----------------------------------------------------------------------------
(* Properties *)

WellBehaved == service \in {"echo", "withhold"}

Calls(op) == {out.calls[i] : i \in {j \in DOMAIN out.calls : out.calls[j].op = op}}

DeleteOps == {"Delete", "ClientDelete"}

\* C1: for Gateway, Server, Tool, Resource and Prompt, the client Get
\* returns the decoded entity and no error on status 200, no entity and no
\* error on status 404, and an error with no entity on every other status
\* (and on a transport error or a 200 body that is not an entity).
C1_GetByStatus ==
    \A c \in Calls("get") :
        /\ (~c.rsp.terr /\ c.rsp.status = StatusOK /\ c.rsp.body.shape = "object")
            => c.res = Result(Entity(c.rsp.body.ent), FALSE)
        /\ (~c.rsp.terr /\ c.rsp.status = StatusNotFound)
            => c.res = Result(NoEntity, FALSE)
        /\ (c.rsp.terr \/ c.rsp.status \notin {StatusOK, StatusNotFound})
            => c.res.err /\ c.res.entity = NoEntity
        /\ (~c.rsp.terr /\ c.rsp.status = StatusOK /\ c.rsp.body.shape # "object")
            => c.res = Result(NoEntity, TRUE)

\* a Server Get answered 404, with a body that holds an entity
C1_Witness ==
    /\ kind = "server"
    /\ \E c \in Calls("get") :
        /\ c.rsp.status = StatusNotFound /\ c.rsp.body.shape = "object"
        /\ c.res.entity.nil /\ ~c.res.err

\* C2: for every kind, the client Delete succeeds exactly when the status
\* is 200, 204 or 404, and returns an error for every other status.
C2_DeleteByStatus ==
    \A c \in Calls("delete") :
        /\ c.res.entity.nil
        /\ ~c.rsp.terr =>
            (c.res.err <=>
                c.rsp.status \notin {StatusOK, StatusNoContent, StatusNotFound})
        /\ c.rsp.terr => c.res.err

\* a Server Delete answered 404 and taken for a success
C2_Witness ==
    /\ kind = "server"
    /\ \E c \in Calls("delete") :
        ~c.rsp.terr /\ c.rsp.status = StatusNotFound /\ ~c.res.err

\* C3: against the well-behaved store, two Deletes in succession on the
\* same identity both report success, and the second changes nothing on
\* the service.
C3_DeleteTwice ==
    (/\ WellBehaved
     /\ prev.op \in DeleteOps /\ out.op \in DeleteOps /\ out.id = prev.id)
        => ~prev.err /\ ~out.err /\ ~out.changed

\* the first Delete removed a server, the second was answered 404
C3_Witness ==
    /\ kind = "server" /\ WellBehaved
    /\ prev.op \in DeleteOps /\ out.op \in DeleteOps /\ out.id = prev.id
    /\ prev.changed /\ ~prev.err
    /\ LastStatus(out) = StatusNotFound /\ ~out.err

\* C4: against the well-behaved store, a Delete followed by a Get of the
\* same identity (for Root and the other reconcilers: by a Read of it)
\* yields "absent" and never an error.
C4_DeleteThenGet ==
    (/\ WellBehaved /\ prev.op \in DeleteOps /\ out.id = prev.id)
        => /\ out.op = "ClientGet" =>
                /\ ~out.err
                /\ \A c \in Calls("get") : c.res = Result(NoEntity, FALSE)
           /\ out.op = "Read" => ~out.err /\ out.effect = "removed"

\* a server was removed by the Delete and the Get of it found nothing
C4_Witness ==
    /\ kind = "server" /\ WellBehaved
    /\ prev.op \in DeleteOps /\ prev.changed /\ out.id = prev.id
    /\ out.op = "ClientGet" /\ ~out.err
    /\ \E c \in Calls("get") : c.res.entity.nil

\* the lookup of a reconciler Read found nothing: nil from Get, or no list
\* entry with the state's URI
Absent ==
    /\ out.op = "Read" /\ out.calls # <<>>
    /\ ~out.calls[1].res.err
    /\ IF kind = "root" THEN Find(out.calls[1].res.list, out.id).nil
       ELSE out.calls[1].res.entity.nil

\* C5: a reconciler Read whose lookup yields "absent" removes the entity
\* from the managed state with no error diagnostic and writes no state.
C5_ReadAbsentRemoves ==
    Absent => ~out.err /\ out.effect = "removed" /\ state = NoState

\* a prompt the service answered 404 for
C5_Witness ==
    /\ kind = "prompt" /\ Absent
    /\ LastStatus(out) = StatusNotFound /\ state = NoState

MutableFields ==
    {"uri", "name", "description", "tags", "tool_ids", "visibility",
     "is_active", "auth_value"}

\* the state holds an identity and, for every attribute the plan declares
\* (a known value), the value the plan supplied
Matches(plan, st) ==
    /\ st.has
    /\ IF kind = "root" THEN st.m.uri = plan.uri
       ELSE IsKnown(st.m.id) /\ ValueString(st.m.id) # <<>>
    /\ \A f \in MutableFields : IsKnown(plan[f]) => st.m[f] = plan[f]

\* C6: for every kind, a reconciler Create immediately followed by a Read,
\* against a service that stores exactly what the create request carries
\* and returns it on read, leaves in the state an identity and, for every
\* declared mutable field (Server tool_ids and is_active included), the
\* value supplied to Create.
C6_CreateThenRead ==
    [][(/\ service = "echo"
        /\ out.op = "Create" /\ ~out.err
        /\ out'.op = "Read" /\ ~out'.err)
            => Matches(out.plan, state')]_vars

\* C7: for Gateway, from a state holding a non-null auth_value V, after an
\* Update whose plan supplies no auth_value (null) and a subsequent Read,
\* against a service that never returns auth_value, the state's auth_value
\* is still V.
C7_UpdateThenReadKeepsAuthValue ==
    [][(/\ kind = "gateway" /\ service = "withhold"
        /\ out.op = "Update" /\ ~out.err
        /\ IsKnown(out.prior_auth) /\ IsNull(out.plan.auth_value)
        /\ out'.op = "Read" /\ out'.effect = "set")
            => state'.m.auth_value = out.prior_auth]_vars

\* C8: for Gateway Read, whenever the prior state holds a known auth_value
\* V and the entity is found, the state written holds V, whether the
\* response omits auth_value or carries another value.
C8_ReadKeepsAuthValue ==
    (/\ kind = "gateway" /\ out.op = "Read" /\ out.effect = "set"
     /\ IsKnown(out.prior_auth))
        => state.has /\ state.m.auth_value = out.prior_auth

\* the response carried an auth_value other than the one held
C8_Witness ==
    /\ kind = "gateway" /\ out.op = "Read" /\ out.effect = "set"
    /\ IsKnown(out.prior_auth)
    /\ out.calls[1].res.entity.ent.auth_value \notin {"", ValueString(out.prior_auth)}
    /\ state.m.auth_value = out.prior_auth

\* C9: the Root reconciler Update, for every input, reports an error
\* diagnostic, issues no HTTP request and writes no state: the prior state
\* and the remote roots are unchanged.
C9_RootUpdateFails ==
    [][(kind = "root" /\ out'.op = "Update")
            => /\ out'.err /\ out'.calls = <<>> /\ out'.effect = "none"
               /\ state' = state /\ remote' = remote]_vars

\* an Update of a root whose plan names it otherwise than the state does
C9_Witness ==
    /\ kind = "root" /\ out.op = "Update" /\ out.err
    /\ state.has /\ remote # <<>>
    /\ out.plan.name # state.m.name

\* C10: with a non-empty bearer token T configured, every request of an
\* entity operation carries Authorization: Bearer T; with an empty token
\* no request carries an Authorization header.
C10_BearerOnEveryRequest ==
    \A i \in DOMAIN out.calls :
        out.calls[i].req.auth =
            IF client.BearerToken # "" THEN Bearer(client.BearerToken) ELSE NoAuth

\* an update request sent with the configured token
C10_Witness ==
    /\ client.BearerToken = "test-token"
    /\ \E c \in Calls("update") : c.req.auth = Bearer("test-token")

\* C11: the health check request (GET /health) carries no Authorization
\* header, even when a bearer token is configured on the client.
C11_HealthUnauthenticated ==
    \A c \in Calls("health") : ~c.req.auth.set

ExpectedShape(k) == IF k = "prompt" THEN "array" ELSE "object"
Declared(attr) == attr.k = "known" /\ attr.v.form # "empty"
Malformed(k, attr) ==
    /\ Declared(attr)
    /\ attr.v.form # "json" \/ attr.v.doc.t # ExpectedShape(k)

\* C12: on Create and Update of a Tool, Gateway or Prompt, a declared
\* non-empty blob that is not JSON of the expected shape ends the invocation
\* with an error diagnostic, no request and no state written; and a declared
\* blob is never left out of the request without an error.
C12_MalformedBlobRejected ==
    (kind \in BlobKinds /\ out.op \in {"Create", "Update"}) =>
        /\ Malformed(kind, out.plan.blob) =>
              out.err /\ out.calls = <<>> /\ out.effect = "none"
        /\ (Declared(out.plan.blob) /\ ~out.err) =>
              \A i \in DOMAIN out.calls : ~out.calls[i].req.body.blob.nil

Vocabulary(k) ==
    IF k = "gateway" THEN {"STREAMABLEHTTP", "SSE", "STDIO"}
    ELSE {"public", "private", "team"}
Governed(k, plan) == IF k = "gateway" THEN plan.transport ELSE plan.visibility
OutOfVocabulary(k, plan) ==
    /\ k \in {"server", "tool", "resource", "prompt", "gateway"}
    /\ IsKnown(Governed(k, plan))
    /\ Governed(k, plan).v \notin Vocabulary(k)

\* C13: a declared visibility outside {public, private, team} (Server, Tool,
\* Resource, Prompt) or a declared Gateway transport outside
\* {STREAMABLEHTTP, SSE, STDIO} is rejected with an error before any request.
C13_VocabularyEnforced ==
    (out.op \in {"Create", "Update"} /\ OutOfVocabulary(kind, out.plan)) =>
        out.err /\ out.calls = <<>> /\ out.effect = "none"

\* C14: on Read, and on the mapping after Create and Update, an optional
\* collection (tags, tool_ids) that the response leaves out is written to
\* state as an empty list, not as null, for every kind.
C14_AbsentCollectionIsEmpty ==
    (kind # "root" /\ out.effect = "set" /\ out.calls # <<>>) =>
        LET e == out.calls[1].res.entity.ent
        IN  /\ e.tags.nil => state.m.tags = ListValue(<<>>)
            /\ (kind = "server" /\ e.tool_ids.nil) =>
                  state.m.tool_ids = ListValue(<<>>)

Reconciled == {"Create", "Read", "Update", "Delete"}

C16_FailedCreateLeavesNothing ==
    (out.op = "Create" /\ out.err /\ out.effect = "none") => ~out.changed

\* C17: Create for a non-Root kind reports success only if the response
\* carries an identity assigned by the service, and the id written to state
\* is exactly that identity: never an empty or locally derived id.
C17_CreateTakesServiceId ==
    (kind # "root" /\ out.op = "Create" /\ ~out.err) =>
        /\ out.effect = "set" /\ Len(out.calls) = 1
        /\ IsKnown(state.m.id) /\ state.m.id.v # <<>>
        /\ state.m.id.v = out.calls[1].rsp.body.ent.id

\* C18: for every non-Root kind, a Read or an Update leaves the id in state
\* equal to the id it had before, whatever id the response carries.
C18_IdStable ==
    [][(/\ kind # "root"
        /\ state.has /\ state'.has
        /\ out'.op \in {"Read", "Update"})
       => state'.m.id = state.m.id]_vars

\* C19: decoding a declared valid JSON blob into the request value and
\* encoding that value again yields a structurally equal document: the same
\* keys and values at every depth, whatever the key order and layout.
C19_BlobRoundTrip ==
    work.stage = "encoded" =>
        /\ IsKnown(work.encoded)
        /\ work.encoded.v.form = "json"
        /\ work.encoded.v.doc = work.text.doc

\* C20 as stated: the endpoint is the declared endpoint if it is non-null,
\* else CONTEXTFORGE_ENDPOINT if non-empty, else http://localhost:4444; the
\* token is the declared bearer_token if non-null, else
\* MCPGATEWAY_BEARER_TOKEN if non-empty, else empty.
C20_DeclaredNonNullWins ==
    work.stage = "configured" =>
        /\ client.BaseURL =
              TrimRight(IF ~IsNull(work.endpoint) THEN work.endpoint.v
                        ELSE IF work.envEndpoint # EmptyEndpoint
                             THEN work.envEndpoint
                        ELSE DefaultEndpoint)
        /\ client.BearerToken =
              IF ~IsNull(work.bearer_token) THEN work.bearer_token.v
              ELSE IF work.envToken # "" THEN work.envToken
              ELSE ""

\* C20 amended: the declared value is chosen when it is known (neither null
\* nor unknown); otherwise the environment variable if non-empty, otherwise
\* the default (http://localhost:4444, the empty token).
C20_DeclaredKnownWins ==
    work.stage = "configured" =>
        /\ client.BaseURL =
              TrimRight(IF IsKnown(work.endpoint) THEN work.endpoint.v
                        ELSE IF work.envEndpoint # EmptyEndpoint
                             THEN work.envEndpoint
                        ELSE DefaultEndpoint)
        /\ client.BearerToken =
              IF IsKnown(work.bearer_token) THEN work.bearer_token.v
              ELSE IF work.envToken # "" THEN work.envToken
              ELSE ""

C20_Witness ==
    /\ work.stage = "configured"
    /\ work.endpoint = EndpointValue(Endpoint("gw", 1))
    /\ work.envEndpoint = Endpoint("env", 0)
    /\ work.bearer_token = StringValue("test-token")
    /\ work.envToken = "env-token"
    /\ client = [BaseURL |-> Endpoint("gw", 0), BearerToken |-> "test-token"]

\* C21: Gateway Create sends is_active = true when is_active is not
\* declared (null or unknown in the plan) and sends the declared value when
\* it is declared.
C21_CreateDefaultsActive ==
    (kind = "gateway" /\ out.op = "Create") =>
        \A i \in DOMAIN out.calls :
            out.calls[i].req.body.is_active =
                SetTo(IF IsKnown(out.plan.is_active)
                      THEN out.plan.is_active.v ELSE TRUE)

C21_Witness ==
    /\ kind = "gateway" /\ out.op = "Create" /\ Len(out.calls) = 1
    /\ IsUnknown(out.plan.is_active)
    /\ out.calls[1].req.body.is_active = SetTo(TRUE)

\* C29: Gateway Update sends is_active = false only when the plan declares
\* is_active = false; with is_active null or unknown it does not send false.
C29_UpdateKeepsActive ==
    (kind = "gateway" /\ out.op = "Update") =>
        \A i \in DOMAIN out.calls :
            out.calls[i].req.body.is_active = SetTo(FALSE) =>
                out.plan.is_active = BoolValue(FALSE)

\* C22: a list lookup sends include_inactive equal to the declared flag
\* (false when undeclared) and returns exactly the entities the service
\* returned, in the same order and count; an empty collection is a success.
C22_ListPassesThrough ==
    work.stage = "list" =>
        /\ Len(out.calls) = 1
        /\ out.calls[1].req.query =
              IF work.config = BoolValue(TRUE) THEN "include_inactive=true"
              ELSE "include_inactive=false"
        /\ LET rsp == out.calls[1].rsp
           IN  (~rsp.terr /\ rsp.status = StatusOK /\ rsp.body.shape = "array") =>
                  /\ ~out.err /\ work.set
                  /\ out.calls[1].res.list = rsp.body.list
                  /\ Len(work.items) = Len(rsp.body.list)
                  /\ \A i \in DOMAIN work.items :
                        /\ work.items[i].id = IdValue(rsp.body.list[i].id)
                        /\ work.items[i].name = StringValue(rsp.body.list[i].name)

C22_Witness ==
    /\ work.stage = "list" /\ work.set /\ Len(work.items) = 2
    /\ work.config = BoolNull
    /\ out.calls[1].req.query = "include_inactive=false"
    /\ work.items[1].id # work.items[2].id

C22_WitnessEmpty ==
    /\ work.stage = "list" /\ work.set /\ work.items = <<>> /\ ~out.err

\* C30: a data lookup by id whose Get yields absent reports a Not Found
\* error diagnostic and writes no state; no lookup writes state built from
\* a nil entity.
C30_AbsentLookupIsError ==
    work.stage = "item" =>
        /\ Len(out.calls) = 1
        /\ (~out.calls[1].res.err /\ out.calls[1].res.entity.nil) =>
              out.err /\ work.diag = "Not Found" /\ ~work.set
        /\ work.set => ~out.calls[1].res.entity.nil /\ ~out.err

C30_Witness ==
    /\ work.stage = "item" /\ out.calls[1].rsp.status = StatusNotFound
    /\ ~out.calls[1].rsp.terr
    /\ work.diag = "Not Found" /\ ~work.set /\ out.err

\* C23: for List, Create and Update of every kind, a response status outside
\* the operation's accepted set (List {200}, Create {200, 201}, Update {200})
\* yields an error that carries the status code and the raw response body,
\* and no entity; a status inside the set with a decodable body yields the
\* decoded entity and no error.
Accepted(op) ==
    IF op = "create" THEN {StatusOK, StatusCreated} ELSE {StatusOK}

C23_UnexpectedStatusCarried ==
    \A i \in DOMAIN out.calls :
        LET c == out.calls[i]
        IN  (c.op \in {"list", "create", "update"} /\ ~c.rsp.terr) =>
              /\ c.rsp.status \notin Accepted(c.op) =>
                    /\ c.res.err
                    /\ c.res.msg.status = c.rsp.status
                    /\ c.res.msg.body = c.rsp.body
                    /\ c.res.entity.nil /\ c.res.list = <<>>
              /\ (c.rsp.status \in Accepted(c.op) /\ c.op = "list"
                    /\ c.rsp.body.shape = "array") =>
                    ~c.res.err /\ c.res.list = c.rsp.body.list
              /\ (c.rsp.status \in Accepted(c.op) /\ c.op # "list"
                    /\ c.rsp.body.shape = "object") =>
                    ~c.res.err /\ c.res.entity = Entity(c.rsp.body.ent)

C23_Witness ==
    /\ Len(out.calls) = 1 /\ out.calls[1].fn = "CreateServer"
    /\ ~out.calls[1].rsp.terr
    /\ out.calls[1].rsp.status = StatusInternalServerError
    /\ out.calls[1].rsp.body = Object(ZeroEntity)
    /\ out.calls[1].res.err
    /\ out.calls[1].res.msg.body = Object(ZeroEntity)

\* C24: for every item-path operation (Get, Update, Delete) the identity is
\* embedded percent-escaped as exactly one path segment after the collection
\* path: the service-decoded segment equals the identity, whatever characters
\* it holds, and two distinct identities never produce the same request path.
C24_IdentityIsOneSegment ==
    work.stage = "path" =>
        LET p == work.req.url.path
        IN  /\ Len(p) = Len(IF work.op = "Get" THEN ReadPath(kind, work.id)
                                                ELSE ItemPath(kind, work.id))
            /\ p[1] = Lit(CollectionPath(kind))
            /\ p[2].lit = "" /\ PathUnescape(p[2].esc) = work.id
            /\ \A other \in PathIds \ {work.id} :
                  ItemRequest(kind, client, work.op, other).url.path # p

C26_ClientErrorLeavesState ==
    [][(/\ out'.op \in Reconciled
        /\ \E i \in DOMAIN out'.calls : out'.calls[i].res.err)
          => (out'.err /\ out'.effect = "none" /\ state' = state)]_vars

C26_Witness ==
    /\ out.op = "Update" /\ Len(out.calls) = 1
    /\ out.calls[1].res.err /\ out.calls[1].res.msg.status = StatusInternalServerError
    /\ out.err /\ state.has

C26_WitnessUndecodable ==
    /\ out.op = "Read" /\ Len(out.calls) = 1
    /\ out.calls[1].rsp.status = StatusOK /\ out.calls[1].rsp.body = Garbage
    /\ out.err /\ state.has

\* C27: Root Read lists all roots with one GET /roots and reports the root
\* as gone if and only if no returned entry has the URI held in state; when
\* a match exists, state takes the URI and name of the first matching entry
\* (name null when that entry's name is empty), and the URI in state never
\* changes across Reads.
C27_RootReadByScan ==
    [][(kind = "root" /\ out'.op = "Read") =>
        /\ Len(out'.calls) = 1
        /\ out'.calls[1].req.method = "GET"
        /\ out'.calls[1].req.url.path = <<Lit("roots")>>
        /\ state'.has => state'.m.uri = state.m.uri
        /\ ~out'.calls[1].res.err =>
              LET roots == out'.calls[1].rsp.body.list
                  at == {i \in DOMAIN roots : IdValue(roots[i].uri) = state.m.uri}
              IN  /\ (out'.effect = "removed" /\ ~state'.has) <=> at = {}
                  /\ at # {} =>
                        LET first == roots[CHOOSE i \in at : \A j \in at : i <= j]
                        IN  /\ state'.has /\ out'.effect = "set"
                            /\ state'.m.uri = IdValue(first.uri)
                            /\ state'.m.name = IF first.name = "" THEN StringNull
                                               ELSE StringValue(first.name)]_vars

C27_Witness ==
    /\ kind = "root" /\ out.op = "Read" /\ out.effect = "set"
    /\ Len(out.calls[1].rsp.body.list) = 3
    /\ out.calls[1].rsp.body.list[1].uri # state.m.uri.v
    /\ out.calls[1].rsp.body.list[2].uri = state.m.uri.v
    /\ out.calls[1].rsp.body.list[3].uri = state.m.uri.v
    /\ out.calls[1].rsp.body.list[3].name # out.calls[1].rsp.body.list[2].name
    /\ state.m.name = StringValue(out.calls[1].rsp.body.list[2].name)

C27_WitnessGone ==
    /\ kind = "root" /\ out.op = "Read" /\ out.effect = "removed"
    /\ ~out.err /\ out.calls[1].rsp.body.list # <<>>

\* C28: Update for Server, Tool, Resource and Prompt builds its request from
\* name, description, tags and the kind-specific fields only: the request's
\* visibility is empty whatever visibility is declared, so a changed
\* declared visibility is never forwarded to the service by Update.
C28_UpdateOmitsVisibility ==
    (kind \in {"server", "tool", "resource", "prompt"} /\ out.op = "Update") =>
        \A i \in DOMAIN out.calls :
            LET body == out.calls[i].req.body
            IN  /\ body.visibility = ""
                /\ body.is_active = Unset
                /\ body.name = ValueString(out.plan.name)
                /\ body.description = ValueString(out.plan.description)
                /\ body.tags = ElementsAs(out.plan.tags)

C28_Witness ==
    /\ kind = "server" /\ out.op = "Update" /\ ~out.err
    /\ out.plan.visibility = StringValue("private")
    /\ Len(out.calls) = 1 /\ out.calls[1].req.method = "PUT"
    /\ out.calls[1].req.body.visibility = ""
    /\ Len(remote) = 1 /\ remote[1].visibility # "private"

====
